---- MODULE Spec2Model ----
(***************************************************************************)
(* Orbital-mechanics and impact-physics core of meteor-madness-nasa:       *)
(* the Deflection Lab (DeflectionLab3D), the Impactor Lab (ImpactorLab3D)  *)
(* and the 2D/3D observatory views.                                        *)
(*                                                                         *)
(* Numbers.  The source computes in IEEE doubles.  The model computes in   *)
(* decimal fixed point with ONE units per 1.0 (angles in micro-radians,    *)
(* lengths in micro-AU, which is exactly the source's scene unit           *)
(* AU_TO_SCENE), and in a 4-digit decimal floating point for the mass and  *)
(* delta-v chain whose magnitudes span 1e-14 .. 1e22.  Every operator      *)
(* below follows the arithmetic of the source expression it models; the    *)
(* comparisons of the claims carry an explicit tolerance for the rounding  *)
(* of this arithmetic.                                                     *)
(*                                                                         *)
(* A local value that is used more than once is bound as the parameter of  *)
(* a local operator, LET F(x) == ... IN F(e), the counterpart of a const   *)
(* declaration in the source: e is evaluated once.                         *)
(***************************************************************************)
EXTENDS Integers, Sequences, FiniteSets, TLC

\* --------------------------------------------------------------------------
\* Fixed-point arithmetic (ONE units per 1.0)
\* --------------------------------------------------------------------------
ONE == 1000 * 1000
KILO == 10 * 100

Abs(x) == IF x < 0 THEN -x ELSE x
Sgn(x) == IF x < 0 THEN -1 ELSE IF x > 0 THEN 1 ELSE 0
Max2(a, b) == IF a >= b THEN a ELSE b
Min2(a, b) == IF a <= b THEN a ELSE b

\* Truncating integer quotient (JavaScript's real quotient, rounded toward 0).
TDiv(a, b) == Sgn(a) * Sgn(b) * (Abs(a) \div Abs(b))

\* a * b of two fixed-point numbers, without leaving 32 bits.
Mul(a, b) ==
  LET Prod(x1, x0, y1, y0) ==
        LET Sum(mid) == x1 * y1 + mid \div KILO + ((mid % KILO) * KILO + x0 * y0) \div ONE
        IN  Sum(x1 * y0 + x0 * y1)
  IN  Sgn(a) * Sgn(b) *
        Prod(Abs(a) \div KILO, Abs(a) % KILO, Abs(b) \div KILO, Abs(b) % KILO)

\* Long division: n decimal digits of r / b after the point (0 <= r < b).
RECURSIVE DivDigits(_, _, _)
DivDigits(r, b, n) ==
  IF n = 0 THEN 0
  ELSE ((r * 10) \div b) * (10 ^ (n - 1)) + DivDigits((r * 10) % b, b, n - 1)

\* a / b of two fixed-point numbers (b # 0).
Div(a, b) ==
  LET Quot(x, y) == (x \div y) * ONE + DivDigits(x % y, y, 6)
  IN  Sgn(a) * Sgn(b) * Quot(Abs(a), Abs(b))

\* Math.sqrt by Newton's iteration on fixed-point numbers (a >= 0).
RECURSIVE SqrtIter(_, _, _)
SqrtIter(a, x, k) ==
  IF k = 0 THEN x
  ELSE LET Step(nx) == IF nx = x THEN nx ELSE SqrtIter(a, nx, k - 1)
       IN  Step((x + Div(a, x)) \div 2)

Sqrt(a) == IF a <= 0 THEN 0 ELSE SqrtIter(a, Max2(a, ONE), 40)

\* Math.PI and its multiples, in micro-radians.
PI == 3141593
TWO_PI == 6283185
HALF_PI == PI \div 2

\* Reduce an angle to [-PI, PI] (the argument reduction inside Math.sin/cos).
Reduce(x) == ((x + PI) % TWO_PI) - PI

\* Taylor polynomials on [-PI/2, PI/2] in Horner form:
\*   1 - x2/d1 * (1 - x2/d2 * (1 - ... )), divisors d1, d2, ... = divs.
RECURSIVE Horner(_, _, _)
Horner(x2, divs, i) ==
  IF i > Len(divs) THEN ONE
  ELSE ONE - Mul(x2, Horner(x2, divs, i + 1)) \div divs[i]

SinPoly(x) == Mul(x, Horner(Mul(x, x), << 6, 20, 42, 72, 110, 156 >>, 1))
CosPoly(x) == Horner(Mul(x, x), << 2, 12, 30, 56, 90, 132, 182 >>, 1)

\* Fold a reduced angle into [-PI/2, PI/2]: sin(PI - r) = sin r.
FoldAngle(r) ==
  IF r > HALF_PI THEN PI - r ELSE IF r < -HALF_PI THEN -PI - r ELSE r

\* Math.sin, Math.cos
Sin(x) == SinPoly(FoldAngle(Reduce(x)))

Cos(x) ==
  LET Folded(r) == (IF Abs(r) > HALF_PI THEN -1 ELSE 1) * CosPoly(FoldAngle(r))
  IN  Folded(Reduce(x))

\* atan(2^-i) in micro-radians, i = 0 .. 20 (CORDIC table).
AtanTable ==
  << 785398, 463648, 244979, 124355, 62419, 31240, 15624, 7812, 3906, 1953,
     977, 488, 244, 122, 61, 31, 15, 8, 4, 2, 1 >>

\* CORDIC vectoring: rotate (x, y), x > 0, onto the x axis, summing the angle.
RECURSIVE Cordic(_, _, _, _)
Cordic(x, y, z, i) ==
  IF i > Len(AtanTable) THEN z
  ELSE LET p == 2 ^ (i - 1)
       IN  IF y > 0
           THEN Cordic(x + y \div p, y - x \div p, z + AtanTable[i], i + 1)
           ELSE IF y < 0
           THEN Cordic(x - y \div p, y + x \div p, z - AtanTable[i], i + 1)
           ELSE z

\* Scale a vector so that its larger component is about 1e8 (keeps CORDIC precise).
RECURSIVE ScaleUp(_, _)
ScaleUp(x, y) ==
  IF Max2(Abs(x), Abs(y)) >= 10 * 10 * ONE THEN
    << x \div 10, y \div 10 >>
  ELSE IF Max2(Abs(x), Abs(y)) = 0 \/ Max2(Abs(x), Abs(y)) >= 10 * ONE THEN
    << x, y >>
  ELSE ScaleUp(x * 10, y * 10)

\* Math.atan2(y, x), result in (-PI, PI].
Atan2(y, x) ==
  LET Quadrant(vx, vy, c) ==
        IF vx > 0 THEN c
        ELSE IF vx < 0 THEN (IF vy >= 0 THEN PI - c ELSE -PI - c)
        ELSE IF vy > 0 THEN HALF_PI
        ELSE IF vy < 0 THEN -HALF_PI
        ELSE 0
      Angle(v) ==
        Quadrant(v[1], v[2], IF v[1] = 0 THEN 0 ELSE Cordic(Abs(v[1]), v[2], 0, 1))
  IN  Angle(ScaleUp(x, y))

\* Math.atan(num / den) without forming the unbounded quotient; result in
\* [-PI/2, PI/2].
AtanRatio(num, den) ==
  IF den < 0 THEN Atan2(-num, -den) ELSE Atan2(num, den)

\* --------------------------------------------------------------------------
\* Decimal floating point [m, x] = m * 10^x with a 4-digit mantissa, for the
\* mass / momentum / delta-v chain (1e-14 .. 1e22 in the source's doubles).
\* --------------------------------------------------------------------------
RECURSIVE FNorm(_, _)
FNorm(m, x) ==
  IF m = 0 THEN [m |-> 0, x |-> 0]
  ELSE IF Abs(m) >= 10 * KILO THEN FNorm(TDiv(m, 10), x + 1)
  ELSE IF Abs(m) < KILO THEN FNorm(m * 10, x - 1)
  ELSE [m |-> m, x |-> x]

FInt(n) == FNorm(n, 0)
FFix(a) == FNorm(a, -6)
FMul(a, b) == FNorm(a.m * b.m, a.x + b.x)
FDiv(a, b) == FNorm(TDiv(a.m * 10 * 10 * KILO, b.m), a.x - b.x - 5)
FNeg(a) == [m |-> -a.m, x |-> a.x]
FLess(a, b) ==
  IF Sgn(a.m) # Sgn(b.m) THEN Sgn(a.m) < Sgn(b.m)
  ELSE IF a.m = 0 THEN FALSE
  ELSE IF a.m > 0 THEN (a.x < b.x \/ (a.x = b.x /\ a.m < b.m))
  ELSE (a.x > b.x \/ (a.x = b.x /\ a.m < b.m))
FMax(a, b) == IF FLess(a, b) THEN b ELSE a
FMin(a, b) == IF FLess(b, a) THEN b ELSE a
\* Math.max(lo, Math.min(hi, n)) on floating-point numbers
FClamp(n, lo, hi) == FMax(lo, FMin(hi, n))
\* The fixed-point value of a floating-point number of magnitude below 2000.
FToFix(a) ==
  IF a.m = 0 \/ a.x < -10 THEN 0
  ELSE IF a.x >= -6 THEN a.m * (10 ^ (a.x + 6))
  ELSE TDiv(a.m, 10 ^ (-6 - a.x))

FHalf == [m |-> 5000, x |-> -4]
FOne == [m |-> 1000, x |-> -3]
FTenth == [m |-> 1000, x |-> -4]
FPi == [m |-> 3142, x |-> -3]

\* --------------------------------------------------------------------------
\* Shared helpers of the labs (DeflectionLab3D, ImpactorLab3D)
\* --------------------------------------------------------------------------
\* part_001:49  clamp(n, lo, hi) = Math.max(lo, Math.min(hi, n))
clamp(n, lo, hi) == Max2(lo, Min2(hi, n))

\* Times are in milli-days (MDAY units per day).
MDAY == KILO

\* part_001:52  toMillis(years, months, days), as elapsed time in milli-days
toMillis(years, months, days) == years * 365250 + months * 30 * MDAY + days * MDAY

\* part_001:43-44  N_EARTH = 2*PI / 365.25, in nano-radians per day
N_EARTH == 17202424

\* rate (nano-units per day) * d (milli-days), in micro-units.
RateTimes(rate, d) ==
  LET s == Sgn(rate) * Sgn(d)
      r1 == Abs(rate) \div KILO
      r0 == Abs(rate) % KILO
      dd == Abs(d) \div KILO
      df == Abs(d) % KILO
  IN  s * (r1 * dd + (r0 * dd) \div KILO + (r1 * df + (r0 * df) \div KILO) \div KILO)

\* part_001:56  earthAngleAt(daysFromStart) = N_EARTH * daysFromStart
earthAngleAt(d) == RateTimes(N_EARTH, d)

\* a variant without the clamp to [0.05, 0.75]
eccFromVel_noClamp(velKps) ==
  Mul(Div(velKps - 5 * ONE, (65 - 5) * ONE), 600000) + 100000

\* part_001:59  eccFromVel(velKps); velKps and the result are fixed-point.
eccFromVel(velKps) ==
  clamp(Mul(Div(velKps - 5 * ONE, (65 - 5) * ONE), 600000) + 100000, 50000, 750000)

\* part_001:62  massFromDiameter(diameterKm, density), floating point in kg
massFromDiameter(diameterKm, density) ==
  LET Volume(r) == FMul(FMul(FMul(FMul(FDiv(FInt(4), FInt(3)), FPi), r), r), r)
  IN  FMul(Volume(FDiv(FMul(diameterKm, FInt(1000)), FInt(2))), density)

\* One pass of the Newton loop body shared by the four solver copies:
\*   f = E - e sin E - M; fp = 1 - e cos E; step = f / fp; E -= step.
\* nan: the double became NaN (0/0) or infinite (x/0), after which every later
\* step is NaN and the break test |step| < 1e-10 is false.
NewtonBody(M, e, E) ==
  LET Update(step) == [E |-> E - step, step |-> step, nan |-> FALSE]
      Body(f, fp) ==
        IF fp = 0 THEN [E |-> E, step |-> 0, nan |-> TRUE] ELSE Update(Div(f, fp))
  IN  Body(E - Mul(e, Sin(E)) - M, ONE - Mul(e, Cos(E)))

StepBelowTol_never(step) == FALSE

\* The break threshold 1e-10 lies below the model's resolution of 1e-6: a step
\* is below it exactly when it rounds to no unit at all.
StepBelowTol(step) == Abs(step) < 1

\* The for-loop `for (k = 0; k < cap; k++) { body; if (|step| < 1e-10) break; }`
\* started at pass k with estimate E.  iters counts the passes executed.
RECURSIVE NewtonLoop(_, _, _, _, _)
NewtonLoop(M, e, E, k, cap) ==
  IF k >= cap THEN [E |-> E, iters |-> k, nan |-> FALSE, step |-> 0 - 1]
  ELSE LET Pass(b) ==
             IF b.nan THEN [E |-> E, iters |-> cap, nan |-> TRUE, step |-> 0]
             ELSE IF StepBelowTol(b.step) \/ k + 1 >= cap
                  THEN [E |-> b.E, iters |-> k + 1, nan |-> FALSE, step |-> b.step]
                  ELSE NewtonLoop(M, e, b.E, k + 1, cap)
       IN  Pass(NewtonBody(M, e, E))

\* Iteration caps of the four solver copies.
SolveKeplerCap == 15
SolveECap == 15
EccAnomCap == 15
InlineCap == 15

\* part_001:67  solveKepler(M, e)
solveKepler(M, e) == NewtonLoop(M, e, M, 0, SolveKeplerCap)
\* part_006:20  solveE(M, e)
solveE(M, e) == NewtonLoop(M, e, M, 0, SolveECap)
\* HeliocentricOrbits.tsx:75  eccentricAnomalyFromMean(Mrad, e)
eccentricAnomalyFromMean(Mrad, e) == NewtonLoop(Mrad, e, Mrad, 0, EccAnomCap)
\* ImpactorLab3D.tsx:70-78  the loop inlined in posFromElements
inlineKepler(M, e) == NewtonLoop(M, e, M, 0, InlineCap)

\* The same loops, one pass at a time.  A solver run is
\*   [solver, M, e, E, k, steps, nan, status]:
\* k is the loop counter, steps the |step| test's operand of every pass executed
\* so far (nan: the step was NaN), status "loop" / "break" / "returned".

CapOf(solver) ==
  CASE solver = "solveKepler" -> SolveKeplerCap
    [] solver = "solveE" -> SolveECap
    [] solver = "eccentricAnomalyFromMean" -> EccAnomCap
    [] solver = "posFromElements" -> InlineCap

\* `let E = M;` and the loop header's `k = 0`
SolverEntry(solver, M, e) ==
  [solver |-> solver, M |-> M, e |-> e, E |-> M, k |-> 0, steps |-> << >>,
   nan |-> FALSE, status |-> "loop"]

\* One execution of the loop body and of the break test, then `k++`.
SolverPass(run) ==
  LET Took(b) ==
        IF b.nan
        THEN [run EXCEPT !.nan = TRUE, !.k = @ + 1,
                         !.steps = Append(@, [nan |-> TRUE, v |-> 0])]
        ELSE IF StepBelowTol(b.step)
             THEN [run EXCEPT !.E = b.E, !.status = "break",
                              !.steps = Append(@, [nan |-> FALSE, v |-> b.step])]
             ELSE [run EXCEPT !.E = b.E, !.k = @ + 1,
                              !.steps = Append(@, [nan |-> FALSE, v |-> b.step])]
  IN  IF run.nan
      THEN [run EXCEPT !.k = @ + 1, !.steps = Append(@, [nan |-> TRUE, v |-> 0])]
      ELSE Took(NewtonBody(run.M, run.e, run.E))

\* a variant that returns the first guess, E = M
SolverReturn_firstGuess(run) ==
  [run EXCEPT !.status = "returned"] @@ [result |-> [nan |-> run.nan, v |-> run.M]]

\* `return E;`  (NaN when the estimate became NaN)
SolverReturn(run) ==
  [run EXCEPT !.status = "returned"] @@ [result |-> [nan |-> run.nan, v |-> run.E]]

\* Degrees are in units of 1e-4 degree; DEG = PI / 180 and 180 / PI as
\* fixed-point factors between those units and micro-radians.
DegToRad(d) == Mul(d, 1745329)
RadToDeg(r) == Mul(r, 572958)
DEGU == 10 * KILO

\* The rotation and perifocal part shared by both posFromElements copies
\* (part_001:86-116, ImpactorLab3D.tsx:53-88), given the solved E.
PosFromE(aAU, e, iDeg, OmegaDeg, omegaDeg, E) ==
  LET Polar(rAU, nu) == [x |-> Mul(rAU, Cos(nu)), y |-> Mul(rAU, Sin(nu)), nu |-> nu]
      Perifocal(cosE, sinE) ==
        Polar(Mul(aAU, ONE - Mul(e, cosE)),
              Atan2(Mul(Sqrt(ONE - Mul(e, e)), sinE), cosE - e))
      Rotate(cO, sO, ci, si, cw, sw, pf) ==
        [x |-> Mul(Mul(cO, cw) - Mul(Mul(sO, sw), ci), pf.x)
                 + Mul((0 - Mul(cO, sw)) - Mul(Mul(sO, cw), ci), pf.y),
         y |-> Mul(Mul(sO, cw) + Mul(Mul(cO, sw), ci), pf.x)
                 + Mul((0 - Mul(sO, sw)) + Mul(Mul(cO, cw), ci), pf.y),
         z |-> Mul(Mul(sw, si), pf.x) + Mul(Mul(cw, si), pf.y),
         nu |-> pf.nu]
  IN  Rotate(Cos(DegToRad(OmegaDeg)), Sin(DegToRad(OmegaDeg)),
             Cos(DegToRad(iDeg)), Sin(DegToRad(iDeg)),
             Cos(DegToRad(omegaDeg)), Sin(DegToRad(omegaDeg)),
             Perifocal(Cos(E), Sin(E)))

\* part_001:78  posFromElements (Deflection Lab); x, y, z in scene units
\* (eSolve and iters record the solver call: the eccentricity it was given and
\* the passes it made)
posFromElements(aAU, e, iDeg, OmegaDeg, omegaDeg, Mdeg) ==
  LET Solved(k) ==
        PosFromE(aAU, e, iDeg, OmegaDeg, omegaDeg, k.E) @@ [eSolve |-> e, iters |-> k.iters]
  IN  Solved(solveKepler(DegToRad(Mdeg), e))

\* ImpactorLab3D.tsx:45  posFromElements (Impactor Lab)
posFromElementsIL(aAU, e, iDeg, OmegaDeg, omegaDeg, Mdeg) ==
  LET Solved(k) ==
        PosFromE(aAU, e, iDeg, OmegaDeg, omegaDeg, k.E) @@ [eSolve |-> e, iters |-> k.iters]
  IN  Solved(inlineKepler(DegToRad(Mdeg), e))

\* --------------------------------------------------------------------------
\* Deflection Lab: the recompute effect (part_001:399-725) as a function of the
\* rendered state
\* --------------------------------------------------------------------------
\* Number of samples of the asteroid paths (rockN = 900 in the source).
RockN == 4


semiMajorFor_noAngle(e, theta) == Div(ONE + e, ONE - Mul(e, e))

\* part_001:486  a = (1 + e cos(theta)) / (1 - e^2): the conic through r = 1 AU at theta
semiMajorFor(e, theta) == Div(ONE + Mul(e, Cos(theta)), ONE - Mul(e, e))

\* part_001:487, 547  n = N_EARTH / a^1.5, in nano-radians per day
meanMotion(aAU) == Div(N_EARTH, Mul(aAU, Sqrt(aAU)))

\* part_001:489-491, 553-554  E = 2 atan(tan(nu / 2) * sqrt((1 - e) / (1 + e)))
eccAnomalyFromTrue(nu, e) ==
  LET Half(h) == 2 * AtanRatio(Mul(Sin(h), Sqrt(Div(ONE - e, ONE + e))), Cos(h))
  IN  Half(TDiv(nu, 2))

\* part_001:492, 555  Kepler's equation M = E - e sin E
meanFromEcc(E, e) == E - Mul(e, Sin(E))

\* The orbit of eccentricity e0 that meets Earth (r = 1 AU at thetaImpact) after
\* totalDays: the sizing both labs perform (part_001:486-493,
\* ImpactorLab3D.tsx:474-481).
OrbitThrough(thetaImpact, e0, totalDays) ==
  LET Phase(a0AU, n0) ==
        [thetaImpact |-> thetaImpact, e |-> e0, a |-> a0AU, n |-> n0,
         M0deg |-> RadToDeg(meanFromEcc(eccAnomalyFromTrue(thetaImpact, e0), e0)
                            - RateTimes(n0, totalDays))]
      Sized(a0AU) == Phase(a0AU, meanMotion(a0AU))
  IN  Sized(semiMajorFor(e0, thetaImpact))

\* part_001:484-494  original orbit sizing
Baseline(speedKps, totalDays) ==
  OrbitThrough(earthAngleAt(totalDays), eccFromVel(speedKps), totalDays)

massAstKg_ignoreCarry(carryMass, diameterKm, density) ==
  massFromDiameter(FInt(diameterKm), FInt(density))

\* part_001:205  massAstKg = carry?.massKg ?? massFromDiameter(diameterKm, density)
\* (carryMass.some is FALSE when there is no carry-over or it has no massKg)
massAstKg(carryMass, diameterKm, density) ==
  IF carryMass.some THEN carryMass.v ELSE massFromDiameter(FInt(diameterKm), FInt(density))

\* part_001:211  deltaV_true_kps
deltaV_true_kps(beta, impactorMassKg, impactorRelSpeedKps, massAst) ==
  FDiv(FMul(FMul(FFix(beta), FInt(impactorMassKg)), FFix(impactorRelSpeedKps)),
       FMax(FOne, massAst))

\* part_001:218  deltaV_tangent_kps
deltaV_tangent_kps(dvTrue, phiDeg) == FMul(dvTrue, FFix(Cos(DegToRad(phiDeg * DEGU))))

fracTrue_unclamped(dvTangent, speedKps) ==
  FMul(FInt(2), FDiv(dvTangent, FMax(FTenth, FFix(speedKps))))

\* part_001:538  frac_true
fracTrue(dvTangent, speedKps) ==
  FClamp(FMul(FInt(2), FDiv(dvTangent, FMax(FTenth, FFix(speedKps)))), FNeg(FHalf), FHalf)

\* part_001:543  frac_vis
fracVis(ft, visGain) ==
  FClamp(FMul(ft, FInt(clamp(visGain, 1, 1000))), FNeg(FHalf), FHalf)

\* part_001:1021  Number.prototype.toFixed(6): the number rounded to the nearest
\* multiple of 1e-6 (what the digits of the text say)
toFixed6(a) ==
  LET Rounded(k) ==
        IF k <= 0 THEN a
        ELSE IF k > 4 THEN [m |-> 0, x |-> 0]
        ELSE FNorm(Sgn(a.m) * ((Abs(a.m) + (10 ^ k) \div 2) \div (10 ^ k)), -6)
  IN  Rounded(-6 - a.x)

\* part_001:1015-1022  the readout "Δa/a (true) ≈":
\* ((2 * deltaV_tangent_kps) / Math.max(0.1, asteroid.speedKps)).toFixed(6)
DeltaAReadout(dvTangent, speedKps) ==
  toFixed6(FDiv(FMul(FInt(2), dvTangent), FMax(FTenth, FFix(speedKps))))

\* Mean anomaly in degrees at d milli-days: M0deg + ((n * 180) / PI) * d
MdegAt(M0deg, n, d) == M0deg + RateTimes(RadToDeg(n), d)

\* part_001:545-556  post-burn elements, phase-matched at the burn
PostBurn(base, fv, dBurn) ==
  LET Phase(a1AU, e1, n1, pBurn) ==
        [a |-> a1AU, e |-> e1, n |-> n1, pBurn |-> pBurn,
         M0deg |-> RadToDeg(meanFromEcc(eccAnomalyFromTrue(pBurn.nu, e1), e1))
                     - RateTimes(RadToDeg(n1), dBurn)]
      Sized(a1AU, e1) ==
        Phase(a1AU, e1, meanMotion(a1AU),
              posFromElements(base.a, base.e, 0, 0, 0, MdegAt(base.M0deg, base.n, dBurn)))
  IN  Sized(Mul(base.a, ONE + FToFix(fv)), clamp(base.e, 10000, 950000))

\* part_001:499-506, 559-565  time of sample i, in milli-days from start
SampleDay(i, N, msToEncounter) == (i * msToEncounter) \div N

\* One sample of a path: the position on the orbit el = [a, e, n, M0deg] at d
\* milli-days from start, with the elements that were used.
\*   const Mdeg = M0deg + ((n * 180) / Math.PI) * d;
\*   const p = posFromElements(a, e, 0, 0, 0, Mdeg);
SampleOn(el, d) ==
  LET At(p) == [d |-> d, a |-> el.a, e |-> el.e, n |-> el.n, M0deg |-> el.M0deg,
                x |-> p.x, y |-> p.y, z |-> p.z, nu |-> p.nu,
                eSolve |-> p.eSolve, iters |-> p.iters]
  IN  At(posFromElements(el.a, el.e, 0, 0, 0, MdegAt(el.M0deg, el.n, d)))

\* part_001:497-509  one sample of the original path
OrigSample(base, d) == SampleOn(base, d)

\* Number of samples of Earth's path (earthN = 576 in the source).
EarthN == 3

\* part_001:464-479, ImpactorLab3D.tsx:452-467  one sample of earthPos
EarthSample(d) ==
  LET On(th) == [d |-> d, x |-> Cos(th), y |-> Sin(th), z |-> 0]
  IN  On(earthAngleAt(d))

lessThanOrEquals_reversed(t, tBurn) == t >= tBurn

\* part_001:566  Cesium.JulianDate.lessThanOrEquals(t, tBurn)
lessThanOrEquals(t, tBurn) == t <= tBurn

\* part_001:558-575  one sample of the deflected path
NewSample(base, post, d, dBurn) ==
  IF lessThanOrEquals(d, dBurn) THEN SampleOn(base, d) ELSE SampleOn(post, d)

\* Integer square root (floor), by Newton's iteration.
RECURSIVE ISqrtIter(_, _)
ISqrtIter(n, x) ==
  LET Step(nx) == IF nx >= x THEN x ELSE ISqrtIter(n, nx)
  IN  Step((x + n \div x) \div 2)

ISqrt(n) == IF n <= 0 THEN 0 ELSE ISqrtIter(n, n)

\* The power of ten that brings m below 2^14, so that three squares sum in 32 bits.
RECURSIVE NormScale(_)
NormScale(m) == IF m < 16384 THEN 1 ELSE 10 * NormScale(m \div 10)

\* Math.sqrt(dx*dx + dy*dy + dz*dz), keeping the relative precision of small
\* differences (a fixed-point square of a few units would vanish).
Norm3(dx, dy, dz) ==
  LET Scaled(k) ==
        k * ISqrt((Abs(dx) \div k) * (Abs(dx) \div k) + (Abs(dy) \div k) * (Abs(dy) \div k)
                    + (Abs(dz) \div k) * (Abs(dz) \div k))
  IN  Scaled(NormScale(Max2(Abs(dx), Max2(Abs(dy), Abs(dz)))))

\* part_001:710  dAU * 149_597_870.7, in whole km (dAU in micro-AU)
AuToKm(dAU) == dAU * 149 + Mul(dAU, 597871)

\* part_001:696-711  miss distance at encounter, in km
MissDistance(base, pStop) ==
  AuToKm(Norm3(pStop.x - Cos(base.thetaImpact), pStop.y - Sin(base.thetaImpact), pStop.z - 0))

\* part_001:450-455  the burn instant, in milli-days from start (1e-3 day is
\* MDAY / 1000)
BurnInstant(burnDays, totalDays) ==
  totalDays - clamp(burnDays * MDAY, 0, totalDays - MDAY \div KILO)

\* part_001:205-221, 538-543  the impulse chain, from the masses to frac_vis
Impulse(r) ==
  LET massAst == massAstKg(r.carryMass, r.diameterKm, r.density)
      dvTrue == deltaV_true_kps(r.beta, r.impactorMassKg, r.impactorRelSpeedKps, massAst)
      dvTan == deltaV_tangent_kps(dvTrue, r.phiDeg)
      ft == fracTrue(dvTan, r.speedKps)
  IN  [massAst |-> massAst, dvTrue |-> dvTrue, dvTan |-> dvTan,
       fracTrue |-> ft, fracVis |-> fracVis(ft, r.visGain)]

\* part_001:440-711  everything the recompute effect derives.  r is the
\* rendered state: [speedKps, diameterKm, density, impactorMassKg,
\* impactorRelSpeedKps, beta, phiDeg, burnDays, msToEncounter, visGain, carryMass].
\* pAfter is the deflected orbit evaluated at the burn instant itself, the
\* limit of the post-burn samples.
Recompute(r) ==
  LET Paths(totalDays, dBurn, base, post, impulse, pStop) ==
        [totalDays |-> totalDays, dBurn |-> dBurn, base |-> base, post |-> post,
         impulse |-> impulse,
         earthPos |-> [i \in 0 .. EarthN |->
                         EarthSample(SampleDay(i, EarthN, r.msToEncounter))],
         posOrig |-> [i \in 0 .. RockN |->
                        OrigSample(base, SampleDay(i, RockN, r.msToEncounter))],
         posNew |-> [i \in 0 .. RockN |->
                       NewSample(base, post, SampleDay(i, RockN, r.msToEncounter), dBurn)],
         pAfter |-> SampleOn(post, dBurn),
         pStop |-> pStop,
         missKm |-> MissDistance(base, pStop)]
      Deflected(totalDays, dBurn, base, post, impulse) ==
        Paths(totalDays, dBurn, base, post, impulse, SampleOn(post, totalDays))
      Sized(totalDays, dBurn, base, impulse) ==
        Deflected(totalDays, dBurn, base, PostBurn(base, impulse.fracVis, dBurn), impulse)
      Timed(totalDays) ==
        Sized(totalDays, BurnInstant(r.burnDays, totalDays),
              Baseline(r.speedKps, totalDays), Impulse(r))
  IN  Timed(Max2(MDAY \div 24, r.msToEncounter))

\* --------------------------------------------------------------------------
\* Impactor Lab: createScenario (ImpactorLab3D.tsx:434-495)
\* --------------------------------------------------------------------------
\* Number of samples of the impactor path (rockN = 720 in the source).
RockNIL == 3

\* ImpactorLab3D.tsx:39  eccFromVel
eccFromVelIL(velKps) ==
  clamp(Mul(Div(velKps - 5 * ONE, (65 - 5) * ONE), 600000) + 100000, 50000, 750000)

\* ImpactorLab3D.tsx:472-481  orbit sizing
ScenarioOrbit(velKps, totalDays) ==
  OrbitThrough(earthAngleAt(totalDays), eccFromVelIL(velKps), totalDays)

\* ImpactorLab3D.tsx:483-495  one sample of rockPos
RockSample(orb, d) ==
  LET At(p) == [d |-> d, a |-> orb.a, e |-> orb.e, x |-> p.x, y |-> p.y, z |-> p.z,
                eSolve |-> p.eSolve, iters |-> p.iters]
  IN  At(posFromElementsIL(orb.a, orb.e, 0, 0, 0, MdegAt(orb.M0deg, orb.n, d)))

\* ImpactorLab3D.tsx:434-567  what createScenario derives from params
\* (totalDays = msToImpact / 86400000, with no lower bound here).
createScenario(par) ==
  LET Scenario(totalDays, orb) ==
        [totalDays |-> totalDays, orb |-> orb,
         earthPos |-> [i \in 0 .. EarthN |->
                         EarthSample(SampleDay(i, EarthN, par.msToImpact))],
         rockPos |-> [i \in 0 .. RockNIL |->
                        RockSample(orb, SampleDay(i, RockNIL, par.msToImpact))],
         impactX |-> [x |-> Cos(orb.thetaImpact), y |-> Sin(orb.thetaImpact), z |-> 0]]
      Timed(totalDays) == Scenario(totalDays, ScenarioOrbit(par.velKps, totalDays))
  IN  Timed(par.msToImpact)

\* --------------------------------------------------------------------------
\* Mission result (part_001:242-244, 727-731)
\* --------------------------------------------------------------------------
\* part_001:47
SAFE_MISS_KM == 15000

\* A double that may be null / NaN / infinite: kind is "null", "nan", "inf" or "num".
Num(v) == [kind |-> "num", v |-> v]
NullNum == [kind |-> "null", v |-> 0]

\* part_001:728  missKm == null || !Number.isFinite(missKm)
MissUnusable(missKm) == missKm.kind = "null" \/ missKm.kind # "num"

evaluateMission_strict(m) ==
  IF MissUnusable(m.missKm) THEN m
  ELSE [m EXCEPT !.resultSuccess = IF m.missKm.v > SAFE_MISS_KM THEN "true" ELSE "false",
                 !.resultOpen = TRUE]

\* part_001:727-731  evaluateMission, as the next popup state
evaluateMission(m) ==
  IF MissUnusable(m.missKm) THEN m
  ELSE [m EXCEPT !.resultSuccess = IF m.missKm.v >= SAFE_MISS_KM THEN "true" ELSE "false",
                 !.resultOpen = TRUE]

\* part_001:242-244  initial popup state
MissionInit == [missKm |-> NullNum, resultOpen |-> FALSE, resultSuccess |-> "null"]

\* --------------------------------------------------------------------------
\* Observatory views (HeliocentricOrbits.tsx, part_006 = HeliocentricCesium3D)
\* --------------------------------------------------------------------------
\* Number(field) of a row of the NEO feed: a finite value, or NaN when the field
\* is absent or does not parse.
Fin(v) == [fin |-> TRUE, v |-> v]
NaNV == [fin |-> FALSE, v |-> 0]

\* Julian dates and approach epochs are in deci-days.
JDU == MDAY \div 100
\* HeliocentricOrbits.tsx:43  JD_UNIX_EPOCH = 2440587.5
JD_UNIX_EPOCH == 24405875
\* HeliocentricOrbits.tsx:50  msToJD(ms)
msToJD(t) == JD_UNIX_EPOCH + t

\* The double nearest to v micro-degrees (0 <= v), ties to even.  Doubles are
\* modelled with 7 significant decimal digits: a value of 100 degrees or more is
\* a multiple of 1e-4 degree, one of 10 degrees or more a multiple of 1e-5 degree.
RoundNearest(v) ==
  LET To(q) ==
        LET Low(lo) ==
              IF 2 * (v - lo) > q \/ (2 * (v - lo) = q /\ (v \div q) % 2 = 1)
              THEN lo + q ELSE lo
        IN  Low((v \div q) * q)
  IN  To(IF v >= 10 ^ 8 THEN 100 ELSE IF v >= 10 ^ 7 THEN 10 ELSE 1)

\* HeliocentricOrbits.tsx:51-55  wrapDeg(d), d in micro-degrees: JavaScript's
\* truncating % is exact, the sum x + 360 is rounded to a double
wrapDeg(d) ==
  LET Wrap(x) == IF x < 0 THEN RoundNearest(x + 360 * ONE) ELSE x
  IN  Wrap(d - (360 * ONE) * TDiv(d, 360 * ONE))

\* part_006:15-19  wrapDeg(d) of the 3D view
wrapDeg3D(d) ==
  LET Wrap(x) == IF x < 0 THEN RoundNearest(x + 360 * ONE) ELSE x
  IN  Wrap(d - (360 * ONE) * TDiv(d, 360 * ONE))

\* HeliocentricOrbits.tsx:57  aphelionAU(od)
aphelionAU(n) ==
  IF ~n.hasOd THEN ONE
  ELSE IF ~n.a.fin \/ ~n.e.fin THEN ONE
  ELSE Mul(n.a.v, ONE + n.e.v)

\* HeliocentricOrbits.tsx:65  percentile(sortedVals, p)
percentile(sortedVals, p) ==
  LET Blend(lo, hi, t) ==
        Mul(sortedVals[lo + 1], ONE - t) + Mul(sortedVals[hi + 1], t)
      At(idx) ==
        Blend(idx \div ONE, (idx + ONE - 1) \div ONE, idx % ONE)
  IN  IF Len(sortedVals) = 0 THEN ONE
      ELSE At(clamp((Len(sortedVals) - 1) * p, 0, (Len(sortedVals) - 1) * ONE))

\* HeliocentricOrbits.tsx:101  the canvas size the view starts with
size == [w |-> 800, h |-> 520]

\* HeliocentricOrbits.tsx:166-181  the fit effect: the zoom it asks for
FitPxPerAU(items) ==
  LET Zoom(maxAU) ==
        clamp(Div(Mul(880000, Min2(size.w, size.h) * ONE), maxAU * 2), 20 * ONE, 1600 * ONE)
      Aps == SortSeq([i \in 1 .. Len(items) |-> aphelionAU(items[i])],
                     LAMBDA x, y : x < y)
  IN  Zoom(clamp(percentile(Aps, 900000), 1200000, 4 * ONE))

clampEcc_noFloor(e) == Min2(990000, e)

\* clamp(e, 0, 0.99), the eccentricity the views hand to the solver
\* (HeliocentricOrbits.tsx:403, part_006:189) and to ellipsePositionsAU (part_006:163)
clampEcc(e) == clamp(e, 0, 990000)

\* The guards that skip a row (HeliocentricOrbits.tsx:360-363, part_006:153-158):
\*   if (!od) continue;  if (!isFinite(a) || !isFinite(e) || a <= 0) continue;
skipRow_anySign(n) == ~n.hasOd \/ ~n.a.fin \/ ~n.e.fin

skipRow(n) == ~n.hasOd \/ ~n.a.fin \/ ~n.e.fin \/ n.a.v <= 0

\* the test guarding the closest-approach marker, without its test of the
\* mean anomaly
hasMarker_anyM0(n) == n.nDegPerDay.fin /\ n.epochOscJD.fin /\ n.approachEpoch.some

\* the test guarding the closest-approach marker (HeliocentricOrbits.tsx:392-397,
\* part_006:180-185)
hasMarker(n) == n.M0.fin /\ n.nDegPerDay.fin /\ n.epochOscJD.fin /\ n.approachEpoch.some

\* Math.sqrt(1 - e * e): NaN for e * e > 1
sqrtOneMinusE2(e) == IF Mul(e, e) > ONE THEN NaNV ELSE Fin(Sqrt(ONE - Mul(e, e)))

\* a product and a sum with an operand that may be NaN
NMul(x, k) == IF x.fin THEN Fin(Mul(x.v, k)) ELSE NaNV
NPlus(c, x) == IF x.fin THEN Fin(c + x.v) ELSE NaNV

\* a variant that leaves out the drift n * dDays since the osculation epoch
M_at_CA_deg_noDrift(n) == wrapDeg(n.M0.v * (ONE \div DEGU)) \div (ONE \div DEGU)

\* HeliocentricOrbits.tsx:398-400, part_006:186-188  JD_CA, dDays and
\* M_at_CA_deg = wrapDeg(M0 + nDegPerDay * dDays); nDegPerDay is in 1e-7 degree
\* per day
M_at_CA_deg(n) ==
  wrapDeg((n.M0.v
           + RateTimes(n.nDegPerDay.v,
                       (msToJD(n.approachEpoch.t) - n.epochOscJD.v) * (MDAY \div JDU)))
          * (ONE \div DEGU)) \div (ONE \div DEGU)

\* HeliocentricOrbits.tsx:401, part_006:188  M_at_CA = M_at_CA_deg * DEG, in radians
meanAnomalyAtCA(n) == DegToRad(M_at_CA_deg(n))

\* HeliocentricOrbits.tsx:404-405, part_006:190-192: the marker's heliocentric
\* position from the E that the solver, called with eccentricity eArg, returned as k
\* (eSolve and iters record that call)
markerAU(n, eArg, k) ==
  LET On(cosE, sinE) ==
        [xAU |-> Mul(n.a.v, cosE - n.e.v),
         yAU |-> NMul(NMul(sqrtOneMinusE2(n.e.v), n.a.v), sinE),
         eSolve |-> eArg, iters |-> k.iters]
  IN  On(Cos(k.E), Sin(k.E))

\* HeliocentricOrbits.tsx:311-316  the diameter range of the listed rows
DiaOf(n) == IF n.dia_km.some THEN n.dia_km.v ELSE Fin(500000)

diaRange(items) ==
  LET Range(dVals) ==
        [dMin |-> IF dVals = {} THEN 200000
                  ELSE CHOOSE v \in dVals : \A w \in dVals : v <= w,
         dMax |-> IF dVals = {} THEN 5 * ONE
                  ELSE CHOOSE v \in dVals : \A w \in dVals : v >= w]
  IN  Range({DiaOf(items[i]).v :
               i \in {j \in 1 .. Len(items) : DiaOf(items[j]).fin /\ DiaOf(items[j]).v > 0}})

\* HeliocentricOrbits.tsx:318-324  diaToPx(dKm), the marker radius in px
diaToPx(dKm, rng) ==
  LET T(sMin, sMax, s) ==
        Fin(clamp(3 * ONE + 9 * Div(s - sMin, sMax - sMin + 1), 3 * ONE, 12 * ONE))
  IN  IF ~dKm.fin THEN NaNV
      ELSE T(Sqrt(Max2(rng.dMin, 50000)), Sqrt(Max2(rng.dMax, 100000)),
             Sqrt(Max2(dKm.v, 50000)))

\* HeliocentricOrbits.tsx:365-368  the orbit ellipse of a row, in px
orbit2D(n, pxPerAU) ==
  LET Axes(ra, rp) ==
        [id |-> n.id, ra |-> ra, rb |-> NMul(sqrtOneMinusE2(n.e.v), ra), focus |-> ra - rp]
  IN  Axes(Mul(n.a.v, pxPerAU), Mul(Mul(n.a.v, ONE - n.e.v), pxPerAU))

\* HeliocentricOrbits.tsx:398-437  the closest-approach marker of a row
marker2D(n, pxPerAU, cx, cy, rng) ==
  LET Placed(m) ==
        [id |-> n.id, x |-> cx + Mul(m.xAU, pxPerAU), y |-> NPlus(cy, NMul(m.yAU, pxPerAU)),
         r |-> diaToPx(DiaOf(n), rng),
         xAU |-> m.xAU, yAU |-> m.yAU, eSolve |-> m.eSolve, iters |-> m.iters,
         Mdeg |-> M_at_CA_deg(n)]
      Solve(eArg) ==
        Placed(markerAU(n, eArg, eccentricAnomalyFromMean(meanAnomalyAtCA(n), eArg)))
  IN  Solve(clampEcc(n.e.v))

\* HeliocentricOrbits.tsx:303-438  the draw effect: what it strokes (orbits) and
\* what it leaves in markersRef.current (markers)
draw2D(items, pxPerAU) ==
  LET Loop(rows, cx, cy, rng) ==
        [orbits |-> [i \in 1 .. Len(rows) |-> orbit2D(rows[i], pxPerAU)],
         markers |-> LET Marked(ms) ==
                           [i \in 1 .. Len(ms) |-> marker2D(ms[i], pxPerAU, cx, cy, rng)]
                     IN  Marked(SelectSeq(rows, hasMarker))]
  IN  Loop(SelectSeq(items, LAMBDA n : ~skipRow(n)),
           (size.w \div 2) * ONE, (size.h \div 2) * ONE, diaRange(items))

\* part_006:160-212  the two entities added for a row
entities3D(n) ==
  LET Ellipse(a, e) == [id |-> << n.id, "orbit" >>, a |-> a, e |-> e,
                        b |-> Mul(a, Sqrt(ONE - Mul(e, e)))]
      Solve(eArg) == markerAU(n, eArg, solveE(meanAnomalyAtCA(n), eArg))
      AtMarker(m) == [id |-> n.id, x |-> m.xAU, y |-> m.yAU, solved |-> TRUE,
                      eSolve |-> m.eSolve, iters |-> m.iters, Mdeg |-> M_at_CA_deg(n)]
  IN  [orbit |-> Ellipse(n.a.v, clampEcc(n.e.v)),
       point |-> IF hasMarker(n) THEN AtMarker(Solve(clampEcc(n.e.v)))
                 ELSE [id |-> n.id, x |-> aphelionAU(n), y |-> Fin(0), solved |-> FALSE,
                       eSolve |-> 0, iters |-> 0, Mdeg |-> 0]]

\* part_006:150-158  maxAU over the rows drawn, from 1.2
RECURSIVE maxAUOf(_, _)
maxAUOf(rows, i) ==
  IF i = 0 THEN 1200000
  ELSE Max2(maxAUOf(rows, i - 1), Mul(rows[i].a.v, ONE + rows[i].e.v))

\* part_006:150-225  the NEO loop and the camera fit radius R = maxAU * 1.15
draw3D(items) ==
  LET Loop(rows) ==
        [entities |-> [i \in 1 .. Len(rows) |-> entities3D(rows[i])],
         R |-> Mul(maxAUOf(rows, Len(rows)), 1150000)]
  IN  Loop(SelectSeq(items, LAMBDA n : ~skipRow(n)))

\* --------------------------------------------------------------------------
\* Inputs
\* --------------------------------------------------------------------------
MaxYears == 1
MissSpan == 2
MaxChanges == 1

NoCarryMass == [some |-> FALSE, v |-> FOne]
CarryMass(m, x) == [some |-> TRUE, v |-> [m |-> m, x |-> x]]

\* part_001:173-203  the initial rendered state without carry-over
DefaultLab ==
  [speedKps |-> 22 * ONE, diameterKm |-> 800, density |-> 3000,
   impactorMassKg |-> 350000, impactorRelSpeedKps |-> 7 * ONE, beta |-> 2 * ONE,
   phiDeg |-> 15, burnDays |-> 30, msToEncounter |-> toMillis(1, 0, 0),
   visGain |-> 200, carryMass |-> NoCarryMass]

\* Slider positions (part_001:780-985): ends of the ranges and the defaults.
SpeedGrid == {5 * ONE, 22 * ONE, 65 * ONE}
TimeGrid == {toMillis(y, md[1], md[2]) : y \in 0 .. MaxYears, md \in {<<0, 0>>, <<0, 10>>, <<6, 0>>}}
\* The rendered state while the viewer is still loading: sliders may have been
\* moved already (no recompute has run for them, part_001:401).  CarryGrid is
\* mm-impact-detail.massKg as read from session storage: 10^12 kg (the Impactor
\* Lab's lightest asteroid), and the degenerate 0 and -5.
DeflectionInputs ==
  LET CarryGrid == {NoCarryMass, CarryMass(1000, 9), CarryMass(0, 0), CarryMass(-5000, -3)}
      OrbitInputs ==
        {[DefaultLab EXCEPT !.speedKps = v, !.msToEncounter = t, !.carryMass = c] :
           v \in SpeedGrid, t \in TimeGrid, c \in {NoCarryMass, CarryMass(1000, 9)}}
      ImpulseInputs ==
        {[DefaultLab EXCEPT !.impactorMassKg = im[1], !.impactorRelSpeedKps = im[2],
                            !.beta = im[3], !.phiDeg = phi, !.carryMass = c,
                            !.diameterKm = body[1], !.density = body[2]] :
           im \in {<<350000, 7 * ONE, 2 * ONE>>, <<10000000, 20 * ONE, 3 * ONE>>},
           phi \in {15, 90, 180}, c \in CarryGrid,
           body \in {<<800, 3000>>, <<50, 1000>>}}
  IN  OrbitInputs \cup ImpulseInputs

\* Slider moves made from then on (part_001:895, 979).
ParamChanges ==
  {[field |-> "visGain", value |-> g] : g \in {1, 1000}} \cup
  {[field |-> "burnDays", value |-> b] : b \in {0, 365}}

ImpactorInputs ==
  {[velKps |-> v, msToImpact |-> t] : v \in SpeedGrid, t \in TimeGrid}

MissInputs ==
  {NullNum, [kind |-> "nan", v |-> 0], [kind |-> "inf", v |-> 0], Num(0)} \cup
  {Num(v) : v \in (SAFE_MISS_KM - MissSpan) .. (SAFE_MISS_KM + MissSpan)}

\* Rows of the NEO feed.  od: the orbital_data fields as Number() reads them.
MaxBodies == 2

Rows ==
  LET NoOd == [a |-> NaNV, e |-> NaNV, M0 |-> NaNV, nDegPerDay |-> NaNV, epochOscJD |-> NaNV]
      Od(a, e, M0, nDegPerDay) ==
        [a |-> a, e |-> e, M0 |-> M0, nDegPerDay |-> nDegPerDay, epochOscJD |-> Fin(24600005)]
      Row(id, hasOd, od, approachEpoch, dia_km) ==
        [id |-> id, hasOd |-> hasOd, a |-> od.a, e |-> od.e, M0 |-> od.M0,
         nDegPerDay |-> od.nDegPerDay, epochOscJD |-> od.epochOscJD,
         approachEpoch |-> approachEpoch, dia_km |-> dia_km]
      Approach == [some |-> TRUE, t |-> 203620]
      NoApproach == [some |-> FALSE, t |-> 0]
      Dia(v) == [some |-> TRUE, v |-> Fin(v)]
      NoDia == [some |-> FALSE, v |-> NaNV]
  IN
  { Row("ok", TRUE, Od(Fin(1500000), Fin(300000), Fin(100 * DEGU), Fin(5300000)),
        Approach, Dia(ONE)),
    Row("wide", TRUE, Od(Fin(3 * ONE), Fin(100000), Fin(250 * DEGU), Fin(1900000)),
        Approach, NoDia),
    Row("high", TRUE, Od(Fin(2500000), Fin(995000), Fin(10 * DEGU), Fin(2500000)),
        Approach, Dia(2 * ONE)),
    Row("below", TRUE, Od(Fin(ONE), Fin(0 - 100000), Fin(40 * DEGU), Fin(9900000)),
        Approach, NoDia),
    Row("hyper", TRUE, Od(Fin(1200000), Fin(1500000), Fin(5 * DEGU), Fin(7500000)),
        Approach, Dia(ONE)),
    Row("noM0", TRUE, Od(Fin(1100000), Fin(200000), NaNV, Fin(8500000)),
        Approach, Dia(ONE)),
    Row("noEpoch", TRUE, Od(Fin(2 * ONE), Fin(400000), Fin(300 * DEGU), Fin(3500000)),
        NoApproach, Dia(4 * ONE)),
    Row("noOd", FALSE, NoOd, Approach, Dia(10 * ONE)),
    Row("aNaN", TRUE, Od(NaNV, Fin(300000), Fin(100 * DEGU), Fin(5300000)),
        Approach, Dia(300000)),
    Row("eNaN", TRUE, Od(Fin(1500000), NaNV, Fin(100 * DEGU), Fin(5300000)),
        Approach, NoDia),
    Row("aZero", TRUE, Od(Fin(0), Fin(300000), Fin(100 * DEGU), Fin(5300000)),
        Approach, Dia(ONE)),
    Row("aNeg", TRUE, Od(Fin(0 - 2 * ONE), Fin(1200000), Fin(20 * DEGU), Fin(3000000)),
        Approach, Dia(5 * ONE)),
    \* osculation epoch JD 2461000.5, M0 310.5543 deg, n 0.5597753 deg/day, and a
    \* closest approach at that very date
    Row("atEpoch", TRUE,
        [Od(Fin(1300000), Fin(250000), Fin(3105543), Fin(5597753))
           EXCEPT !.epochOscJD = Fin(24610005)],
        [some |-> TRUE, t |-> 24610005 - JD_UNIX_EPOCH], Dia(ONE)),
    \* a closest approach 413 days before the osculation epoch
    Row("early", TRUE, Od(Fin(1400000), Fin(350000), Fin(40 * DEGU), Fin(9900000)),
        [some |-> TRUE, t |-> 190000], Dia(ONE)) }

\* Lists of up to MaxBodies rows with distinct ids.
RowLists ==
  UNION {{l \in [1 .. k -> Rows] : \A i, j \in 1 .. k : l[i] = l[j] => i = j} :
           k \in 0 .. MaxBodies}

PopupStates ==
  {[resultOpen |-> FALSE, resultSuccess |-> "null"]} \cup
  {[resultOpen |-> o, resultSuccess |-> r] : o \in BOOLEAN, r \in {"true", "false"}}

\* --------------------------------------------------------------------------
\* State
\* --------------------------------------------------------------------------
VARIABLES
  page,      \* the view, or the function called on its own, under consideration
  pc,        \* deflection: "loading" / "ready" (viewerRef.current set);
             \* globe: the place of the init function;
             \* otherwise "input" until the handler has run, then "done"
  lab,       \* Deflection Lab rendered state (the recompute effect's dependencies)
  changes,   \* slider moves made so far
  scene,     \* what the recompute effect last derived; globe: craterRef.current
  imp,       \* Impactor Lab params
  scenario,  \* what createScenario last derived
  mission,   \* missKm, resultOpen, resultSuccess
  run,       \* a Kepler solver run, pass by pass; a helper's call; globe: the
             \* impact prop and whether its overlay effect is still to run
  obs        \* observatory view: the rows listed, the zoom, what was drawn

vars == << page, pc, lab, changes, scene, imp, scenario, mission, run, obs >>

NoScene == [none |-> TRUE]
NoRun == [status |-> "none"]
\* HeliocentricOrbits.tsx:104  pxPerAU starts at 220
NoObs == [items |-> << >>, pxPerAU |-> 220 * ONE, out |-> NoScene]
DefaultImp == [velKps |-> 22 * ONE, msToImpact |-> toMillis(1, 0, 0)]

Init ==
  /\ page \in {"deflection", "impact", "mission", "observatory2D", "observatory3D"}
  /\ pc = IF page = "deflection" THEN "loading" ELSE "input"
  /\ changes = 0
  /\ scene = NoScene
  /\ scenario = NoScene
  /\ lab \in (IF page = "deflection" THEN DeflectionInputs ELSE {DefaultLab})
  /\ imp \in (IF page = "impact" THEN ImpactorInputs ELSE {DefaultImp})
  /\ mission \in (IF page = "mission"
                  THEN {[missKm |-> mk, resultOpen |-> ps.resultOpen,
                         resultSuccess |-> ps.resultSuccess] :
                          mk \in MissInputs, ps \in PopupStates}
                  ELSE {MissionInit})
  /\ run = NoRun
  /\ obs \in (IF page \in {"observatory2D", "observatory3D"}
              THEN {[NoObs EXCEPT !.items = l] : l \in RowLists}
              ELSE {NoObs})

\* part_001:246-378  the dynamic import resolves and the async body stores the
\* viewer in viewerRef: a ref assignment, which renders nothing and runs no effect.
ViewerInitDone ==
  /\ page = "deflection"
  /\ pc = "loading"
  /\ pc' = "ready"
  /\ UNCHANGED << page, lab, changes, scene, imp, scenario, mission, run, obs >>

\* part_001:399-725  the recompute effect for the rendered state r
RecomputeEffect(r) ==
  IF pc = "ready"
  THEN /\ scene' = Recompute(r)
       /\ mission' = [mission EXCEPT !.missKm = Num(scene'.missKm)]
  ELSE UNCHANGED << scene, mission >>

\* A slider's onChange (part_001:791-979): the state setter, the re-render, and
\* the recompute effect, whose dependency list holds the changed value.
SetParam ==
  /\ page = "deflection"
  /\ changes < MaxChanges
  /\ \E ch \in ParamChanges :
       /\ lab[ch.field] # ch.value
       /\ lab' = [lab EXCEPT ![ch.field] = ch.value]
       /\ RecomputeEffect(lab')
  /\ changes' = changes + 1
  /\ UNCHANGED << page, pc, imp, scenario, run, obs >>

\* ImpactorLab3D.tsx:414  createScenario(), called with the viewer ready
CreateScenario ==
  /\ page = "impact"
  /\ pc = "input"
  /\ scenario' = createScenario(imp)
  /\ pc' = "done"
  /\ UNCHANGED << page, lab, changes, scene, imp, mission, run, obs >>

\* part_001:727  evaluateMission(); in the lab its button is disabled while
\* missKm == null (part_001:1004)
EvaluateMission ==
  /\ \/ page = "mission" /\ pc' = "done"
     \/ page = "deflection" /\ mission.missKm.kind # "null" /\ pc' = pc
  /\ mission' = evaluateMission(mission)
  /\ UNCHANGED << page, lab, changes, scene, imp, scenario, run, obs >>

\* part_001:1050  the popup's close buttons: setResultOpen(false)
CloseResult ==
  /\ page \in {"deflection", "mission"}
  /\ mission.resultOpen
  /\ mission' = [mission EXCEPT !.resultOpen = FALSE]
  /\ UNCHANGED << page, pc, lab, changes, scene, imp, scenario, run, obs >>

\* HeliocentricOrbits.tsx:166-181, 303-447  the view is given its rows: the fit
\* effect sets the zoom and the draw effect draws with it
Draw2D ==
  /\ page = "observatory2D"
  /\ pc = "input"
  /\ obs' = [obs EXCEPT !.pxPerAU = FitPxPerAU(obs.items),
                        !.out = draw2D(obs.items, FitPxPerAU(obs.items))]
  /\ pc' = "done"
  /\ UNCHANGED << page, lab, changes, scene, imp, scenario, mission, run >>

\* part_006:62-240  the viewer is built and the rows are drawn
Draw3D ==
  /\ page = "observatory3D"
  /\ pc = "input"
  /\ obs' = [obs EXCEPT !.out = draw3D(obs.items)]
  /\ pc' = "done"
  /\ UNCHANGED << page, lab, changes, scene, imp, scenario, mission, run >>

Next ==
  \/ Draw2D
  \/ Draw3D
  \/ ViewerInitDone
  \/ SetParam
  \/ CreateScenario
  \/ EvaluateMission
  \/ CloseResult

Spec == Init /\ [][Next]_vars

\* --------------------------------------------------------------------------
\* The Kepler solvers on their own: any M and e, one pass per step
\* --------------------------------------------------------------------------
KeplerInit ==
  /\ page = "kepler"
  /\ pc = "input"
  /\ changes = 0
  /\ scene = NoScene
  /\ scenario = NoScene
  /\ lab = DefaultLab
  /\ imp = DefaultImp
  /\ mission = MissionInit
  /\ obs = NoObs
  /\ LET SolverNames ==
           {"solveKepler", "solveE", "eccentricAnomalyFromMean", "posFromElements"}
         MGrid == {0, 1, 100000, ONE, 2 * ONE, 3 * ONE, PI, 0 - 2 * ONE, 6 * ONE, TWO_PI - 1}
         EGrid == {0, 500000, 750000, 950000, 990000}
         KeplerInputs ==
           {[M |-> M, e |-> e] : M \in MGrid, e \in EGrid} \cup {[M |-> 0, e |-> ONE]}
     IN  \E solver \in SolverNames, in \in KeplerInputs :
           run = SolverEntry(solver, in.M, in.e)

\* the loop condition `k < 15`, and control being at it
LoopGoesOn == run.status = "loop" /\ run.k < CapOf(run.solver)
\* the loop was left, by `break` or by `k < 15` failing
LoopLeft == run.status = "break" \/ (run.status = "loop" /\ run.k >= CapOf(run.solver))

\* the body runs once more
KeplerPass ==
  /\ LoopGoesOn
  /\ run' = SolverPass(run)
  /\ UNCHANGED << page, pc, lab, changes, scene, imp, scenario, mission, obs >>

\* `return E;`
KeplerReturn ==
  /\ LoopLeft
  /\ run' = SolverReturn(run)
  /\ UNCHANGED << page, pc, lab, changes, scene, imp, scenario, mission, obs >>

KeplerSpec == KeplerInit /\ [][KeplerPass \/ KeplerReturn]_vars

\* --------------------------------------------------------------------------
\* The helper functions, one call at a time
\* --------------------------------------------------------------------------
\* wrapDeg is called with an angle d (micro-degrees, a double: up to 7 digits),
\* eccFromVel with the speeds v <= w (micro-km/s) from below, on and above the
\* slider range 5 .. 65.
HelperInit ==
  /\ page \in {"wrapDeg", "eccFromVel"}
  /\ pc = "input"
  /\ changes = 0
  /\ scene = NoScene
  /\ scenario = NoScene
  /\ lab = DefaultLab
  /\ imp = DefaultImp
  /\ mission = MissionInit
  /\ obs = NoObs
  /\ run \in (IF page = "wrapDeg"
              THEN {[d |-> d] :
                      d \in {k * 10 * ONE : k \in -80 .. 80}
                            \cup {0 - 1, 0 - 10, 0 - 49, 0 - 50, 0 - 51, 0 - 150, 0 - ONE,
                                  1, 0 - 359 * ONE, 719 * ONE, 0 - 721 * ONE}}
              ELSE LET Speeds == {k * 5 * ONE : k \in -11 .. 25}
                                   \cup {5 * ONE + 1, 6 * ONE, 22 * ONE, 64 * ONE,
                                         65 * ONE - 1}
                   IN  {r \in [v : Speeds, w : Speeds] : r.v <= r.w})

\* HeliocentricOrbits.tsx:51-55, part_006:15-19  both copies of wrapDeg return
ApplyWrapDeg ==
  /\ page = "wrapDeg"
  /\ pc = "input"
  /\ run' = [d |-> run.d, out |-> wrapDeg(run.d), out3D |-> wrapDeg3D(run.d)]
  /\ pc' = "done"
  /\ UNCHANGED << page, lab, changes, scene, imp, scenario, mission, obs >>

\* part_001:59-61, ImpactorLab3D.tsx:39-41  both copies of eccFromVel return
ApplyEccFromVel ==
  /\ page = "eccFromVel"
  /\ pc = "input"
  /\ run' = [v |-> run.v, w |-> run.w,
             e |-> eccFromVel(run.v), eIL |-> eccFromVelIL(run.v),
             eW |-> eccFromVel(run.w), eWIL |-> eccFromVelIL(run.w)]
  /\ pc' = "done"
  /\ UNCHANGED << page, lab, changes, scene, imp, scenario, mission, obs >>

HelperSpec == HelperInit /\ [][ApplyWrapDeg \/ ApplyEccFromVel]_vars

\* --------------------------------------------------------------------------
\* The globe page: ImpactGlobePage and GlobeCesium
\* --------------------------------------------------------------------------
\* pc is the place of GlobeCesium's async init function: "importing" (at
\* `await import("cesium")`), "buildings" (at `await createOsmBuildingsAsync()`),
\* "ready" (viewerRef.current set).  run.impact is the page's impact state, the
\* prop of GlobeCesium; run.effect tells that a render with a changed impact has
\* its overlay effect still to run; scene is craterRef.current; changes counts
\* the mm-open-globe-impact events.
MaxEvents == 2

\* GlobeCesium.tsx:5-14  impacts as JSON.parse or the event's detail hands them over
GlobeImpacts ==
  {[null |-> FALSE, name |-> nm, lat |-> lat, lon |-> Fin(20 * ONE), craterKm |-> ck] :
     nm \in {"A", "B"}, lat \in {Fin(10 * ONE), NaNV},
     ck \in {Fin(1200000), Fin(80 * ONE), NaNV}}

\* part_005:27-46 and GlobeCesium.tsx:36-139, 142-144: the page after mount.  The
\* init effect is at its first await, the overlay effect has returned at once
\* (viewerRef.current is null), and the page's effect has called setImpact when
\* sessionStorage held an impact.
GlobeInit ==
  /\ page = "globe"
  /\ pc = "importing"
  /\ changes = 0
  /\ scene = NoScene
  /\ scenario = NoScene
  /\ lab = DefaultLab
  /\ imp = DefaultImp
  /\ mission = MissionInit
  /\ obs = NoObs
  /\ run \in {[impact |-> [null |-> TRUE], effect |-> FALSE]}
             \cup {[impact |-> i, effect |-> TRUE] : i \in GlobeImpacts}

\* part_005:35-42  onOpen: setImpact(e.detail); the re-render passes the new
\* impact to GlobeCesium and schedules its overlay effect
OnOpen ==
  /\ page = "globe"
  /\ changes < MaxEvents
  /\ \E detail \in GlobeImpacts \ {run.impact} :
       run' = [impact |-> detail, effect |-> TRUE]
  /\ changes' = changes + 1
  /\ UNCHANGED << page, pc, lab, scene, imp, scenario, mission, obs >>

\* GlobeCesium.tsx:40, 104, 121  the init function resumes after an await: after
\* the import it builds the viewer and awaits the buildings, after the buildings
\* (loaded or failed) it sets viewerRef.current; no state is set, nothing renders
InitResume ==
  /\ page = "globe"
  /\ pc \in {"importing", "buildings"}
  /\ pc' = IF pc = "importing" THEN "buildings" ELSE "ready"
  /\ UNCHANGED << page, lab, changes, scene, imp, scenario, mission, run, obs >>

\* GlobeCesium.tsx:142-282  the overlay effect of a render whose impact changed
OverlayEffect ==
  /\ page = "globe"
  /\ run.effect
  /\ run' = [run EXCEPT !.effect = FALSE]
  /\ scene' =
       IF pc # "ready" THEN scene
       ELSE IF run.impact.null THEN NoScene
       ELSE IF ~run.impact.lat.fin \/ ~run.impact.lon.fin \/ ~run.impact.craterKm.fin
            THEN NoScene
       ELSE [none |-> FALSE, name |-> run.impact.name,
             lat |-> run.impact.lat.v, lon |-> run.impact.lon.v,
             radiusMeters |-> Max2(2500, (run.impact.craterKm.v \div KILO) \div 2)]
  /\ UNCHANGED << page, pc, lab, changes, imp, scenario, mission, obs >>

\* React runs the effect of every committed render, and an awaited import or
\* load that settles resumes the init function.
GlobeSpec ==
  /\ GlobeInit
  /\ [][OnOpen \/ InitResume \/ OverlayEffect]_vars
  /\ WF_vars(InitResume) /\ WF_vars(OverlayEffect)

\* --------------------------------------------------------------------------
\* The NEO feed: /api/neos (route.ts)
\* --------------------------------------------------------------------------
\* Times are in minutes since 2025-01-01T00:00Z.  A string is the sequence of
\* its characters.

\* route.ts:34  Number.parseInt(str, 10): leading blanks, a sign, then the
\* longest run of digits; NaN when there is no digit
parseInt(str) ==
  LET Digits == << "0", "1", "2", "3", "4", "5", "6", "7", "8", "9" >>
      IsDigit(c) == \E i \in 1 .. 10 : Digits[i] = c
      Val(c) == (CHOOSE i \in 1 .. 10 : Digits[i] = c) - 1
      RECURSIVE Skip(_)
      Skip(i) == IF i <= Len(str) /\ str[i] = " " THEN Skip(i + 1) ELSE i
      RECURSIVE Read(_, _, _, _)
      Read(i, sign, acc, seen) ==
        IF i <= Len(str) /\ IsDigit(str[i])
        THEN Read(i + 1, sign, acc * 10 + Val(str[i]), TRUE)
        ELSE IF seen THEN Fin(sign * acc) ELSE NaNV
      Signed(i) ==
        IF i <= Len(str) /\ str[i] = "-" THEN Read(i + 1, -1, 0, FALSE)
        ELSE IF i <= Len(str) /\ str[i] = "+" THEN Read(i + 1, 1, 0, FALSE)
        ELSE Read(i, 1, 0, FALSE)
  IN  Signed(Skip(1))

\* route.ts:28-37  clampInt(v, defVal, min, max); v is a query parameter,
\* [null |-> TRUE] when the query does not have it
clampInt(v, defVal, min, max) ==
  LET Clamped(n) == IF ~n.fin THEN defVal ELSE Max2(min, Min2(max, n.v))
  IN  Clamped(parseInt(IF v.null THEN << >> ELSE v.s))

\* route.ts:39-66  fetchJSONWithRetry(url, tries).  net lists the upstream's
\* answers to the HTTP requests made from now on (status 0: fetch rejects, a
\* network error; past its end every answer is 200); made is the number of
\* requests made before the call.  The result tells whether the call returned
\* or threw, the statuses it saw and the delays it awaited.
fetchJSONWithRetry(net, made, tries) ==
  LET Answer(k) == IF k <= Len(net) THEN net[k] ELSE 200
      RECURSIVE Loop(_, _, _)
      Loop(i, seen, delays) ==
        IF ~(i < tries) THEN [ok |-> FALSE, seen |-> seen, delays |-> delays]
        ELSE LET Got(status) ==
                   IF status = 0
                   THEN \* fetch rejected: the catch block
                        Loop(i + 1, Append(seen, status), Append(delays, 600 * 2 ^ i))
                   ELSE IF status >= 200 /\ status <= 299
                   THEN [ok |-> TRUE, seen |-> Append(seen, status), delays |-> delays]
                   ELSE IF status = 429 \/ (status >= 500 /\ status <= 599)
                   THEN \* lastErr, delay, continue
                        Loop(i + 1, Append(seen, status), Append(delays, 600 * 2 ^ i))
                   ELSE \* `throw` inside the try block: caught by its catch block
                        Loop(i + 1, Append(seen, status), Append(delays, 600 * 2 ^ i))
             IN  Got(Answer(made + i + 1))
  IN  Loop(0, << >>, << >>)

\* route.ts:83-86, 176, 308-312  Array.prototype.sort (stable) with one of the
\* route's comparators: "epoch" (a.epoch - b.epoch, lines 83-86 and 176) or
\* "epochThenMiss" (epoch, ties by miss_km, lines 308-312)
sort(list, cmp) ==
  LET Cmp(a, b) == IF cmp = "epoch" \/ a.epoch # b.epoch THEN a.epoch - b.epoch
                   ELSE a.miss_km - b.miss_km
      RECURSIVE Ins(_, _)
      Ins(t, x) ==
        IF t = << >> THEN << x >>
        ELSE IF Cmp(t[Len(t)], x) <= 0 THEN Append(t, x)
        ELSE Append(Ins(SubSeq(t, 1, Len(t) - 1), x), t[Len(t)])
      RECURSIVE Go(_)
      Go(n) == IF n = 0 THEN << >> ELSE Ins(Go(n - 1), list[n])
  IN  Go(Len(list))

\* route.ts:76-88  earliestUpcomingEarth(neo, now, endEpoch); << >> stands for null
earliestUpcomingEarth(neo, now, endEpoch) ==
  LET First(list) == IF Len(list) = 0 THEN << >> ELSE << list[1] >>
  IN  First(sort(SelectSeq(neo.close_approach_data,
                           LAMBDA c : c.orbiting_body = "Earth"
                                      /\ c.epoch >= now /\ c.epoch <= endEpoch),
                 "epoch"))

\* route.ts:118-171  SAMPLE_ITEMS: 433 Eros (2025-11-30T02:18Z, 5.9487e7 km) and
\* 887 Alinda (2027-01-25T21:50Z, 2.488e7 km); miss_km in units of 1000 km
SAMPLE_ITEMS ==
  << [id |-> "2000433", hazardous |-> FALSE, epoch |-> 333 * 1440 + 138, miss_km |-> 59487],
     [id |-> "2000887", hazardous |-> FALSE, epoch |-> 754 * 1440 + 1310, miss_km |-> 24880] >>

\* route.ts:173-178  buildSample(limit), at Date.now() = now
buildSample(limit, now) ==
  LET Slice(list) == SubSeq(list, 1, Min2(Max2(limit, 0), Len(list)))
  IN  Slice(sort(SelectSeq(SAMPLE_ITEMS, LAMBDA r : r.epoch >= now),
                 "epoch"))

\* The upstream: the body of NASA's answer to /neo/browse?page=...  The "small"
\* catalogue has two pages (433 Eros, id 2000433, among its objects), the "long"
\* one has a thousand pages without any object that approaches Earth.
Browse(cat, pageNo) ==
  LET Neo(id, hazardous, cad) ==
        [id |-> id, hazardous |-> hazardous, close_approach_data |-> cad]
      Ca(body, day, miss) == [orbiting_body |-> body, epoch |-> day * 1440, miss_km |-> miss]
  IN  IF cat = "long"
      THEN [neos |-> << Neo("9", TRUE, << Ca("Venus", 700, 1) >>) >>,
            hasNext |-> TRUE, total_pages |-> 1000]
      ELSE IF pageNo = 0
      THEN [neos |-> << Neo("1", TRUE, << Ca("Earth", 900, 5) >>),
                        Neo("2", FALSE, << Ca("Earth", 450, 7), Ca("Earth", 400, 3) >>),
                        Neo("2000433", FALSE, << Ca("Earth", 2000, 10) >>) >>,
            hasNext |-> TRUE, total_pages |-> 2]
      ELSE [neos |-> << Neo("3", TRUE, << Ca("Earth", 900, 2) >>),
                        Neo("4", TRUE, << Ca("Venus", 500, 1) >>),
                        Neo("5", FALSE, << Ca("Earth", 0 - 100, 4) >>) >>,
            hasNext |-> FALSE, total_pages |-> 2]

\* route.ts:227  the condition of scan's while loop (maxPagesToScan = 40, line 218)
ScanGoesOn_offByOne(out, limit, scanned_pages) ==
  Len(out) < limit /\ scanned_pages <= 40

ScanGoesOn(out, limit, scanned_pages) ==
  Len(out) < limit /\ scanned_pages < 40

\* route.ts:225-296  scan(hazardOnly), from the handler's variables s (out,
\* scanned_pages, lastError, total_pages_from_api; made and fetches record the
\* HTTP requests made and the result of every fetchJSONWithRetry call, with the
\* scan that made it)
scan(hazardOnly, s0, limit, now, endEpoch, q) ==
  LET Row(neo, ca) ==
        [id |-> neo.id, hazardous |-> neo.hazardous, epoch |-> ca.epoch,
         miss_km |-> ca.miss_km]
      RECURSIVE For(_, _, _)
      For(neos, i, out) ==
        IF i > Len(neos) THEN out
        ELSE IF hazardOnly /\ ~neos[i].hazardous THEN For(neos, i + 1, out)
        ELSE LET With(ca) ==
                   IF ca = << >> THEN For(neos, i + 1, out)
                   ELSE IF Len(out) + 1 >= limit THEN Append(out, Row(neos[i], ca[1]))
                   ELSE For(neos, i + 1, Append(out, Row(neos[i], ca[1])))
             IN  With(earliestUpcomingEarth(neos[i], now, endEpoch))
      \* one turn of the while loop: the handler's variables after it, and
      \* whether the loop goes on to the next page
      Turn(pageNo, s) ==
        LET Fetched(f) ==
              LET Logged(t) ==
                    [t EXCEPT !.made = @ + Len(f.seen),
                              !.fetches = Append(@, f @@ [hazardOnly |-> hazardOnly])]
                  OnPage(j) ==
                    [s |-> [Logged(s) EXCEPT !.scanned_pages = @ + 1,
                                             !.total_pages_from_api = j.total_pages,
                                             !.out = For(j.neos, 1, @)],
                     more |-> ~(~j.hasNext \/ pageNo + 1 >= j.total_pages)]
              IN  IF ~f.ok THEN [s |-> [Logged(s) EXCEPT !.lastError = TRUE], more |-> FALSE]
                  ELSE OnPage(Browse(q.cat, pageNo))
        IN  Fetched(fetchJSONWithRetry(q.net, s.made, 3))
      RECURSIVE While(_, _)
      While(pageNo, s) ==
        IF ~ScanGoesOn(s.out, limit, s.scanned_pages) THEN s
        ELSE LET After(t) == IF t.more THEN While(pageNo + 1, t.s) ELSE t.s
             IN  After(Turn(pageNo, s))
  IN  While(0, s0)

\* route.ts:13-21  cacheGet with an entry dropped as soon as it is 5 minutes old
cacheGet_expired(cache, k, now) ==
  IF k \notin DOMAIN cache THEN [data |-> << >>, cache |-> cache]
  ELSE IF now - cache[k].t >= 5
       THEN [data |-> << >>, cache |-> [x \in DOMAIN cache \ {k} |-> cache[x]]]
       ELSE [data |-> << cache[k].data >>, cache |-> cache]

\* route.ts:13-21  cacheGet(k) at Date.now() = now: the data (<< >> stands for
\* undefined) and the cache afterwards
cacheGet(cache, k, now) ==
  IF k \notin DOMAIN cache THEN [data |-> << >>, cache |-> cache]
  ELSE IF now - cache[k].t > 5
       THEN [data |-> << >>, cache |-> [x \in DOMAIN cache \ {k} |-> cache[x]]]
       ELSE [data |-> << cache[k].data >>, cache |-> cache]

\* route.ts:330  meta.hazard_only_effective
hazard_only_effective_requested(hazardOnlyRequested, relaxedHazard) == hazardOnlyRequested

hazard_only_effective(hazardOnlyRequested, relaxedHazard) ==
  hazardOnlyRequested /\ ~relaxedHazard

\* route.ts:183-347  GET(req) with the query q (limit, years, hazard), process
\* environment apiKey (set or not) and Date.now() = now: the response, the
\* cache afterwards and the fetchJSONWithRetry calls made (found: out.length
\* when line 302 decides whether the hazard filter is relaxed).  The horizon
\* years * 365.25 days is years * 1461 * 1440 / 4 minutes; hazard is lower-cased
\* ("TRUE" is the one upper-case value of the model).
GET(q, apiKey, now, cache) ==
  IF ~apiKey
  THEN [status |-> 500, items |-> buildSample(10, now),
        meta |-> [returned |-> 2, fallback |-> TRUE, api_key_source |-> "missing"],
        found |-> 0, cache |-> cache, fetches |-> << >>]
  ELSE LET Handle(limit, years, hazardOnlyRequested) ==
             LET Payload(s, relaxedHazard, c, found) ==
                   LET Padded(items, sample) ==
                         LET Meta(final, usedFallback) ==
                               [status |-> 200, items |-> final, found |-> found,
                                meta |-> [horizon_years |-> years,
                                          hazard_only_requested |-> hazardOnlyRequested,
                                          hazard_only_effective |->
                                            hazard_only_effective(hazardOnlyRequested,
                                                                  relaxedHazard),
                                          relaxed_hazard |-> relaxedHazard,
                                          api_key_source |-> "env",
                                          returned |-> Len(final),
                                          scanned_pages |-> s.scanned_pages,
                                          error |-> s.lastError,
                                          fallback |-> usedFallback]]
                         IN  IF Len(items) < Min2(5, limit) /\ Len(sample) > 0
                             THEN Meta(SubSeq(items \o sample, 1,
                                              Min2(limit, Len(items) + Len(sample))), TRUE)
                             ELSE Meta(items, FALSE)
                       Trimmed(items) ==
                         Padded(items,
                                IF Len(items) < Min2(5, limit)
                                THEN buildSample(limit - Len(items), now) ELSE << >>)
                       Stored(payload) ==
                         payload @@
                         [cache |-> [x \in DOMAIN c.cache
                                            \cup {<< limit, years, hazardOnlyRequested >>} |->
                                       IF x = << limit, years, hazardOnlyRequested >>
                                       THEN [t |-> now, data |-> payload]
                                       ELSE c.cache[x]],
                          fetches |-> s.fetches]
                   IN  Stored(Trimmed(SubSeq(
                         sort(s.out, "epochThenMiss"),
                         1, Min2(limit, Len(s.out)))))
                 Relax(s, c) ==
                   IF Len(s.out) < limit /\ hazardOnlyRequested
                   THEN Payload(scan(FALSE, s, limit, now,
                                     now + (years * 1461 * 1440) \div 4, q), TRUE, c,
                                Len(s.out))
                   ELSE Payload(s, FALSE, c, Len(s.out))
                 Cached(c) ==
                   IF c.data # << >>
                   THEN c.data[1] @@ [cache |-> c.cache, fetches |-> << >>]
                   ELSE Relax(scan(hazardOnlyRequested,
                                   [out |-> << >>, scanned_pages |-> 0, lastError |-> FALSE,
                                    total_pages_from_api |-> 0, made |-> 0, fetches |-> << >>],
                                   limit, now, now + (years * 1461 * 1440) \div 4, q), c)
             IN  Cached(cacheGet(cache, << limit, years, hazardOnlyRequested >>, now))
       IN  Handle(clampInt(q.limit, 20, 1, 20), clampInt(q.years, 10, 1, 10),
                  (IF q.hazard.null THEN "true" ELSE IF q.hazard.s = "" THEN "true"
                   ELSE IF q.hazard.s = "TRUE" THEN "true" ELSE q.hazard.s) = "true")

\* The requests: query parameters as searchParams.get returns them, and what
\* the upstream does while the request is handled (net, cat).
MaxGets == 2

RouteRequests ==
  LET Null == [null |-> TRUE]
      Param(str) == [null |-> FALSE, s |-> str]
      Query(limit, years, hazard, net, cat) ==
        [limit |-> limit, years |-> years, hazard |-> hazard, net |-> net, cat |-> cat]
      Limits == {Null, Param(<< "1" >>), Param(<< "3" >>), Param(<< "2", "5" >>),
                 Param(<< "x" >>), Param(<< "0" >>), Param(<< "-", "4" >>),
                 Param(<< " ", "2", "x" >>)}
  IN  {Query(l, Null, h, << >>, "small") :
         l \in Limits, h \in {Null, Param("false"), Param("TRUE")}}
      \cup {Query(Param(<< "3" >>), Null, h, net, "small") :
              h \in {Null, Param("false")},
              net \in {<< 503, 503, 503 >>, << 200, 503, 500, 429 >>, << 404 >>,
                       << 0, 200, 429, 0, 0 >>}}
      \cup {Query(l, Param(<< "1" >>), h, << >>, "small") :
              l \in {Null, Param(<< "3" >>)}, h \in {Null, Param("")}}
      \cup {Query(Param(<< "3" >>), Null, Null, net, "long") : net \in {<< >>, << 503 >>}}

\* route.ts:11, 186  the server process before the first request (page "neos":
\* an empty cache, NASA_API_KEY set or not), or one fetchJSONWithRetry call
\* about to be made (page "fetch")
RouteInit ==
  /\ page \in {"neos", "fetch"}
  /\ pc = "input"
  /\ changes = 0
  /\ scene = NoScene
  /\ scenario = NoScene
  /\ lab = DefaultLab
  /\ imp = DefaultImp
  /\ mission = MissionInit
  /\ obs = NoObs
  /\ run \in (IF page = "neos"
              THEN {[apiKey |-> k, now |-> t, cache |-> << >>, ticked |-> FALSE] :
                      k \in BOOLEAN, t \in {0, 600000, 1200000}}
              ELSE {[net |-> net] : net \in [1 .. 3 -> {0, 200, 404, 429, 503}]})

\* route.ts:183-347  a request is handled
Get ==
  /\ page = "neos"
  /\ changes < MaxGets
  /\ \E q \in RouteRequests :
       LET Answered(r) ==
             run' = [apiKey |-> run.apiKey, now |-> run.now, cache |-> r.cache,
                     ticked |-> run.ticked, q |-> q,
                     res |-> [status |-> r.status, items |-> r.items, meta |-> r.meta,
                              found |-> r.found, fetches |-> r.fetches]]
       IN  Answered(GET(q, run.apiKey, run.now, run.cache))
  /\ changes' = changes + 1
  /\ pc' = "done"
  /\ UNCHANGED << page, lab, scene, imp, scenario, mission, obs >>

\* route.ts:16, 23, 208  Date.now(): time passes between two requests, less or
\* more than the cache's 5 minutes, or 5 minutes exactly
Tick ==
  /\ page = "neos"
  /\ pc = "done"
  /\ ~run.ticked
  /\ \E d \in {3, 5, 6} : run' = [run EXCEPT !.now = @ + d, !.ticked = TRUE]
  /\ UNCHANGED << page, pc, lab, changes, scene, imp, scenario, mission, obs >>

\* route.ts:39-66  one call of fetchJSONWithRetry(url, 3)
Fetch ==
  /\ page = "fetch"
  /\ pc = "input"
  /\ run' = [net |-> run.net, f |-> fetchJSONWithRetry(run.net, 0, 3)]
  /\ pc' = "done"
  /\ UNCHANGED << page, lab, changes, scene, imp, scenario, mission, obs >>

RouteSpec == RouteInit /\ [][Get \/ Tick \/ Fetch]_vars

\* --------------------------------------------------------------------------
\* Properties
\* --------------------------------------------------------------------------
\* Rounding of the fixed-point arithmetic, in micro-AU: positions that are equal
\* in exact arithmetic come out at most this far apart.
PosTol == 100

HasScene == page = "deflection" /\ "none" \notin DOMAIN scene
HasScenario == page = "impact" /\ "none" \notin DOMAIN scenario

Dist3(p, q) == Norm3(p.x - q.x, p.y - q.y, p.z - q.z)

\* Earth at d milli-days from start: radius 1 AU, angle N_EARTH * d.
EarthAt(d) == [x |-> Cos(earthAngleAt(d)), y |-> Sin(earthAngleAt(d)), z |-> 0]

\* a and b agree to the precision of the floating-point chain (5 parts in 1000).
FClose(a, b) ==
  IF b.m = 0 THEN a.m = 0
  ELSE Abs(FToFix(FDiv(a, b)) - ONE) <= 5000

\* A valid parameter combination: the sliders' values (every input of the model)
\* and a carried-over asteroid mass, when there is one, of at least 1 kg.
ValidLab(r) == ~r.carryMass.some \/ ~FLess(r.carryMass.v, FOne)

\* C1 (as claimed): at the burn instant the position on the pre-burn orbit
\* equals the position on the post-burn orbit, for every valid parameter
\* combination.
C1_BurnContinuity ==
  (HasScene /\ ValidLab(lab)) => Dist3(scene.post.pBurn, scene.pAfter) <= PosTol

\* C3: the baseline orbit of either lab, propagated by totalDays, is at Earth's
\* position at encounter; with no orbit-shape change the miss distance is 0.
C3_BaselineIntercept ==
  /\ HasScene
       => Dist3(OrigSample(scene.base, scene.totalDays), EarthAt(scene.totalDays)) <= PosTol
  /\ (HasScene /\ scene.posOrig[RockN].d = scene.totalDays)
       => Dist3(scene.posOrig[RockN], EarthAt(scene.totalDays)) <= PosTol
  /\ (HasScene /\ FToFix(scene.impulse.fracVis) = 0)
       => scene.missKm <= AuToKm(PosTol)
  /\ HasScenario
       => Dist3(scenario.rockPos[RockNIL], EarthAt(scenario.totalDays)) <= PosTol

C3_Witness ==
  /\ HasScene
  /\ lab.speedKps = 65 * ONE
  /\ lab.msToEncounter = toMillis(1, 6, 0)
  /\ scene.posOrig[RockN].d = scene.totalDays
  /\ FToFix(scene.impulse.fracVis) = 0

\* C8: frac_true and frac_vis lie in [-0.5, 0.5], and a1 in [0.5 a0, 1.5 a0], a1 > 0.
C8_ShapeChangeBounded ==
  HasScene =>
    /\ ~FLess(scene.impulse.fracTrue, FNeg(FHalf)) /\ ~FLess(FHalf, scene.impulse.fracTrue)
    /\ ~FLess(scene.impulse.fracVis, FNeg(FHalf)) /\ ~FLess(FHalf, scene.impulse.fracVis)
    /\ 2 * scene.post.a >= scene.base.a - 2
    /\ 2 * scene.post.a <= 3 * scene.base.a + 2
    /\ scene.post.a > 0

C8_Witness ==
  /\ HasScene
  /\ scene.impulse.fracTrue = FHalf
  /\ scene.impulse.fracVis = FHalf
  /\ lab.visGain = 1000
  /\ 2 * scene.post.a >= 3 * scene.base.a - 2

\* The sphere-volume mass density * (4/3) * pi * (diameterKm * 500)^3, as
\* density * pi * d^3 / 6 with d in metres.
SphereMass(diameterKm, density) ==
  FDiv(FMul(FMul(FInt(density), FPi),
            FMul(FMul(FInt(diameterKm * KILO), FInt(diameterKm * KILO)), FInt(diameterKm * KILO))),
       FInt(6))

\* C9: dv_true * max(1, m_asteroid) = beta * m_impactor * v_rel, dv_tangent =
\* dv_true * cos(phi), and m_asteroid is the carry-over mass when there is one,
\* else the sphere-volume mass.
C9_DeltaV ==
  HasScene =>
    /\ FClose(FMul(scene.impulse.dvTrue,
                   IF FLess(scene.impulse.massAst, FOne) THEN FOne ELSE scene.impulse.massAst),
              FMul(FFix(Mul(lab.beta, lab.impactorRelSpeedKps)), FInt(lab.impactorMassKg)))
    /\ FClose(scene.impulse.dvTan,
              FMul(scene.impulse.dvTrue, FFix(Sin(HALF_PI - DegToRad(lab.phiDeg * DEGU)))))
    /\ lab.carryMass.some => scene.impulse.massAst = lab.carryMass.v
    /\ ~lab.carryMass.some
         => FClose(scene.impulse.massAst, SphereMass(lab.diameterKm, lab.density))

C9_Witness ==
  /\ HasScene
  /\ lab.carryMass = CarryMass(0, 0)
  /\ scene.impulse.dvTrue = FMul(FMul(FFix(lab.beta), FInt(lab.impactorMassKg)),
                                 FFix(lab.impactorRelSpeedKps))

\* C10: a sample of the deflected path before the burn instant has the pre-burn
\* elements (and the original path's position), one after it the post-burn elements.
C10_PiecewiseSampling ==
  HasScene =>
    \A i \in 0 .. RockN :
      /\ scene.posNew[i].d < scene.dBurn
           => /\ scene.posNew[i] = scene.posOrig[i]
              /\ scene.posNew[i].a = scene.base.a /\ scene.posNew[i].e = scene.base.e
              /\ scene.posNew[i].n = scene.base.n
              /\ scene.posNew[i].M0deg = scene.base.M0deg
      /\ scene.posNew[i].d > scene.dBurn
           => /\ scene.posNew[i].a = scene.post.a /\ scene.posNew[i].e = scene.post.e
              /\ scene.posNew[i].n = scene.post.n
              /\ scene.posNew[i].M0deg = scene.post.M0deg

C10_Witness ==
  /\ HasScene
  /\ scene.post.a # scene.base.a
  /\ scene.posNew[1].d < scene.dBurn
  /\ scene.posNew[RockN].d > scene.dBurn
  /\ scene.posNew[RockN].a = scene.post.a

\* C4: evaluateMission sets success exactly when missKm >= 15000 and opens the
\* popup; with missKm null or non-finite it changes nothing.
C4_MissionClassification ==
  [][EvaluateMission =>
       IF mission.missKm.kind = "num"
       THEN /\ mission'.resultOpen
            /\ mission'.resultSuccess = (IF mission.missKm.v >= 15000 THEN "true" ELSE "false")
            /\ mission'.missKm = mission.missKm
       ELSE mission' = mission]_vars

C4_Witness ==
  /\ page = "mission"
  /\ pc = "done"
  /\ mission.missKm = Num(SAFE_MISS_KM)
  /\ mission.resultSuccess = "true"
  /\ mission.resultOpen

\* C2 (as claimed): once the viewer is ready and no effect is pending, the
\* stored missKm is the miss distance derived from the current parameters.
C2_MissKmCurrent ==
  (page = "deflection" /\ pc = "ready") => mission.missKm = Num(Recompute(lab).missKm)

\* |step| < 1e-10, at the model's resolution
SmallStep(st) == ~st.nan /\ Abs(st.v) < 1

\* C5: each solver copy makes at most 15 passes, makes no pass after the first
\* one whose |step| < 1e-10, is never stuck before it returns, and returns the
\* estimate it then holds, converged or not.
C5_SolverTerminates ==
  run.status # "none" =>
    /\ Len(run.steps) <= 15
    /\ \A j \in 1 .. Len(run.steps) - 1 : ~SmallStep(run.steps[j])
    /\ (run.status = "loop" /\ run.steps # << >>) => ~SmallStep(run.steps[Len(run.steps)])
    /\ run.status = "break" => SmallStep(run.steps[Len(run.steps)])
    /\ run.status = "returned" =>
         /\ Len(run.steps) = 15 \/ SmallStep(run.steps[Len(run.steps)])
         /\ run.result = [nan |-> run.nan, v |-> run.E]
    /\ run.status # "returned" => (LoopGoesOn \/ LoopLeft)

\* a run that returned after 15 passes without a step below the threshold
C5_Witness ==
  /\ run.status = "returned"
  /\ Len(run.steps) = 15
  /\ ~SmallStep(run.steps[15])
  /\ ~run.nan

Drawn2D == page = "observatory2D" /\ pc = "done"
Drawn3D == page = "observatory3D" /\ pc = "done"

EccInRange(e) == 0 <= e /\ e <= 990000

\* C6: whenever a Kepler solver was called (for a sample of either lab's paths,
\* the burn and encounter positions, or an observatory marker), its eccentricity
\* argument was in [0, 0.99].
C6_SolverEccentricity ==
  /\ HasScene =>
       /\ \A i \in 0 .. RockN :
            EccInRange(scene.posOrig[i].eSolve) /\ EccInRange(scene.posNew[i].eSolve)
       /\ EccInRange(scene.post.pBurn.eSolve)
       /\ EccInRange(scene.pStop.eSolve)
  /\ HasScenario => \A i \in 0 .. RockNIL : EccInRange(scenario.rockPos[i].eSolve)
  /\ Drawn2D => \A i \in 1 .. Len(obs.out.markers) : EccInRange(obs.out.markers[i].eSolve)
  /\ Drawn3D =>
       \A i \in 1 .. Len(obs.out.entities) :
         obs.out.entities[i].point.solved => EccInRange(obs.out.entities[i].point.eSolve)

\* a list with a row of eccentricity below 0 and one above 0.99, both solved
C6_Witness ==
  /\ Drawn2D
  /\ Len(obs.out.markers) = 2
  /\ \E i, j \in 1 .. Len(obs.items) :
       /\ obs.items[i].e.v < 0
       /\ obs.items[j].e.v > 990000
       /\ obs.out.markers[i].eSolve = 0
       /\ obs.out.markers[j].eSolve = 990000

\* The rows the claim calls unusable: orbital_data absent, semi-major axis or
\* eccentricity absent or non-finite, or semi-major axis <= 0.
Unusable(n) == ~n.hasOd \/ ~n.a.fin \/ ~n.e.fin \/ (n.a.fin /\ n.a.v <= 0)
UsableOf(items) == SelectSeq(items, LAMBDA n : ~Unusable(n))
IdsOf(rows) == [i \in 1 .. Len(rows) |-> rows[i].id]

\* What a 2D drawing says about the bodies themselves: which orbits and markers
\* there are, and the markers' heliocentric positions.
Helio2D(out) ==
  [orbits |-> IdsOf(out.orbits),
   markers |-> [i \in 1 .. Len(out.markers) |->
                  [id |-> out.markers[i].id, xAU |-> out.markers[i].xAU,
                   yAU |-> out.markers[i].yAU]]]

\* C7 (as claimed): what a view draws for a list is what it draws for the list
\* without its unusable rows.
C7_SameAsWithoutUnusable ==
  /\ Drawn2D => obs.out = draw2D(UsableOf(obs.items), FitPxPerAU(UsableOf(obs.items)))
  /\ Drawn3D => obs.out = draw3D(UsableOf(obs.items))

\* C7 (amended): a view draws exactly the usable rows of its list, in order; the
\* 3D view's output, and the 2D view's orbits and heliocentric marker positions,
\* are those of the list without its unusable rows (the 2D view's zoom and
\* marker radii are fitted to all the rows listed).
C7_UnusableRowsSkipped ==
  /\ Drawn2D =>
       /\ IdsOf(obs.out.orbits) = IdsOf(UsableOf(obs.items))
       /\ Helio2D(obs.out)
            = Helio2D(draw2D(UsableOf(obs.items), FitPxPerAU(UsableOf(obs.items))))
  /\ Drawn3D =>
       /\ [i \in 1 .. Len(obs.out.entities) |-> obs.out.entities[i].point.id]
            = IdsOf(UsableOf(obs.items))
       /\ obs.out = draw3D(UsableOf(obs.items))

\* a 2D drawing of a usable row listed after an unusable one
C7_Witness ==
  /\ Drawn2D
  /\ Len(obs.items) = 2
  /\ Unusable(obs.items[1])
  /\ ~Unusable(obs.items[2])
  /\ Len(obs.out.markers) = 1
  /\ obs.out.markers[1].id = obs.items[2].id

\* the sample times of a sequence indexed 0 .. N are strictly increasing
Increasing(samples, N) == \A i \in 0 .. N - 1 : samples[i].d < samples[i + 1].d

\* C11 (as claimed): Earth's, the original and the deflected path of the
\* Deflection Lab, and Earth's and the impactor's path of the Impactor Lab, have
\* strictly increasing sample times for every time to encounter of the sliders.
C11_SampleTimesIncrease ==
  /\ HasScene =>
       /\ Increasing(scene.earthPos, EarthN)
       /\ Increasing(scene.posOrig, RockN)
       /\ Increasing(scene.posNew, RockN)
  /\ HasScenario =>
       /\ Increasing(scenario.earthPos, EarthN)
       /\ Increasing(scenario.rockPos, RockNIL)

\* the row of the feed that a drawn marker belongs to
RowOf(id) == CHOOSE n \in Rows : n.id = id

\* M0 + n * (JD - epochOsculationJD) reduced to [0, 360), with
\* JD = 2440587.5 + approachEpoch / 86400000 (angles in 1e-4 degree)
MeanAnomalyClaimed(n) ==
  (n.M0.v + RateTimes(n.nDegPerDay.v,
                      ((24405875 + n.approachEpoch.t) - n.epochOscJD.v) * (MDAY \div JDU)))
    % (360 * DEGU)

\* the closest approach is at the osculation epoch itself
AtOsculation(n) == 24405875 + n.approachEpoch.t = n.epochOscJD.v

MdegAsClaimed(m) ==
  /\ m.Mdeg = MeanAnomalyClaimed(RowOf(m.id))
  /\ AtOsculation(RowOf(m.id)) => m.Mdeg = RowOf(m.id).M0.v % (360 * DEGU)

\* C12: every closest-approach marker of both observatory views was solved for the
\* mean anomaly (M0 + n * (JD - epochOsculationJD)) mod 360 with
\* JD = 2440587.5 + approachEpochMs / 86400000, and for an approach at the
\* osculation epoch itself that is M0 mod 360.
C12_MeanAnomalyAtApproach ==
  /\ Drawn2D => \A i \in 1 .. Len(obs.out.markers) : MdegAsClaimed(obs.out.markers[i])
  /\ Drawn3D =>
       \A i \in 1 .. Len(obs.out.entities) :
         obs.out.entities[i].point.solved => MdegAsClaimed(obs.out.entities[i].point)

\* the 3D view has drawn the row of the example (approach at the osculation
\* epoch, mean anomaly 310.5543 deg) next to the row whose approach precedes its
\* osculation epoch (M0 + n * dDays = -368.87 deg, drawn at 351.13 deg)
C12_Witness ==
  /\ Drawn3D
  /\ \E i, j \in 1 .. Len(obs.out.entities) :
       /\ obs.out.entities[i].point.id = "atEpoch"
       /\ obs.out.entities[i].point.solved
       /\ obs.out.entities[i].point.Mdeg = 3105543
       /\ obs.out.entities[j].point.id = "early"
       /\ obs.out.entities[j].point.Mdeg = 3511300

\* C13 (as claimed): for every angle d, negative ones included, both copies of
\* wrapDeg return the same value, which lies in [0, 360) and is congruent to d
\* modulo 360 (to the rounding of a double near 360, half of 1e-4 degree);
\* wrapDeg(-10) = 350 and wrapDeg(370) = 10.
C13_WrapDegRange ==
  (page = "wrapDeg" /\ pc = "done") =>
    /\ 0 <= run.out /\ run.out < 360 * ONE
    /\ (run.out - run.d + 50) % (360 * ONE) <= 100
    /\ run.out3D = run.out
    /\ run.d = 0 - 10 * ONE => run.out = 350 * ONE
    /\ run.d = 370 * ONE => run.out = 10 * ONE

\* the eccentricity the formula gives in exact arithmetic:
\* clamp((v - 5) / 60 * 0.6 + 0.1, 0.05, 0.75), (v - 5) / 60 * 0.6 = (v - 5) / 100
EccOfSpeed(v) ==
  IF (v - 5 * ONE) \div 100 + 100000 < 50000 THEN 50000
  ELSE IF (v - 5 * ONE) \div 100 + 100000 > 750000 THEN 750000
  ELSE (v - 5 * ONE) \div 100 + 100000

\* C14: in both labs eccFromVel(v) is clamp(((v - 5) / 60) * 0.6 + 0.1, 0.05, 0.75):
\* it lies in [0.05, 0.75] for every speed, does not decrease when the speed
\* grows, and over the slider range 5 .. 65 runs from 0.1 to 0.7 strictly
\* between the clamp bounds.
C14_EccFromVel ==
  (page = "eccFromVel" /\ pc = "done") =>
    /\ run.eIL = run.e /\ run.eWIL = run.eW
    /\ 50000 <= run.e /\ run.e <= 750000
    /\ Abs(run.e - EccOfSpeed(run.v)) <= 1
    /\ run.e <= run.eW
    /\ (5 * ONE <= run.v /\ run.v <= 65 * ONE) =>
         (100000 <= run.e /\ run.e <= 700000)
    /\ run.v = 5 * ONE => run.e = 100000
    /\ run.w = 65 * ONE => run.eW = 700000

\* the two ends of the slider range
C14_Witness ==
  /\ page = "eccFromVel" /\ pc = "done"
  /\ run.v = 5 * ONE /\ run.w = 65 * ONE /\ run.e = 100000 /\ run.eW = 700000

\* the residual of Kepler's equation allowed to the arithmetic, in 1e-6 rad
ResTol == 2

FiniteImpact ==
  /\ ~run.impact.null
  /\ run.impact.lat.fin /\ run.impact.lon.fin /\ run.impact.craterKm.fin

\* the crater overlay of the current impact is on the globe
OverlayPresent ==
  /\ scene # NoScene
  /\ scene.name = run.impact.name
  /\ scene.lat = run.impact.lat.v /\ scene.lon = run.impact.lon.v
  /\ scene.radiusMeters * 2 * KILO >= run.impact.craterKm.v

\* C16 (as claimed): on the globe page, when the viewer initialisation has
\* completed and the impact given to GlobeCesium has finite lat, lon and
\* craterKm, the crater overlay of the current impact is eventually present (or
\* the impact has been replaced by one without finite numbers), whatever the
\* order of the impact's arrival and of the import and the buildings load.
C16_OverlayEventuallyPresent ==
  (page = "globe" /\ pc = "ready" /\ FiniteImpact) ~> (~FiniteImpact \/ OverlayPresent)

\* a request to /api/neos has been answered
Answered == page = "neos" /\ pc = "done"

\* C17 (as claimed): no two items of a response have the same id.
C17_NoDuplicateIds ==
  Answered =>
    \A i, j \in 1 .. Len(run.res.items) :
      run.res.items[i].id = run.res.items[j].id => i = j

\* a status after which fetchJSONWithRetry may try again: a network error
\* (status 0), 429 or 5xx
Retryable(status) == status = 0 \/ status = 429 \/ (status >= 500 /\ status <= 599)

\* C18 (as claimed): fetchJSONWithRetry makes a further attempt only after a
\* network error, a 429 or a 5xx answer; after any other answer that is not OK
\* it throws at once, with no further attempt and no backoff delay.
C18_RetryOnlyTransient ==
  (page = "fetch" /\ pc = "done") =>
    /\ \A i \in 1 .. Len(run.f.seen) - 1 : Retryable(run.f.seen[i])
    /\ \A i \in 1 .. Len(run.f.seen) :
         (~Retryable(run.f.seen[i]) /\ ~(run.f.seen[i] \in 200 .. 299)) =>
           (i = Len(run.f.seen) /\ ~run.f.ok /\ Len(run.f.delays) = i - 1)

\* the limit of a request: its limit parameter as an integer, 20 when absent
\* or not a number, brought into 1 .. 20
LimitOf(v) ==
  IF v.null THEN 20
  ELSE CASE v.s = << "1" >> -> 1
         [] v.s = << "3" >> -> 3
         [] v.s = << "2", "5" >> -> 20
         [] v.s = << "x" >> -> 20
         [] v.s = << "0" >> -> 1
         [] v.s = << "-", "4" >> -> 1
         [] v.s = << " ", "2", "x" >> -> 2

\* C19 (as claimed): every response has at most `limit` items, on every path
\* (missing API key and sample padding included).
C19_AtMostLimitItems ==
  Answered => Len(run.res.items) <= LimitOf(run.q.limit)

\* C20 (as claimed): the items of every response are in ascending order of
\* approach epoch, and of miss distance among equal epochs, sample items
\* included.
C20_ItemsOrdered ==
  Answered =>
    \A i, j \in 1 .. Len(run.res.items) :
      i < j =>
        \/ run.res.items[i].epoch < run.res.items[j].epoch
        \/ /\ run.res.items[i].epoch = run.res.items[j].epoch
           /\ run.res.items[i].miss_km <= run.res.items[j].miss_km

\* C21 (as claimed): meta.returned of every response is the number of its
\* items, with and without an API key, whatever the time is.
C21_ReturnedIsItemCount ==
  Answered => run.res.meta.returned = Len(run.res.items)

\* C22: a response that reports hazard_only_effective = true has hazardous
\* items only (no object of a relaxed scan, no sample item).
C22_EffectiveMeansHazardous ==
  (Answered /\ run.apiKey /\ run.res.meta.hazard_only_effective) =>
    \A i \in 1 .. Len(run.res.items) : run.res.items[i].hazardous

\* C22 witness: a hazard-only response with two hazardous objects found on two
\* pages of the catalogue
C22_Witness ==
  /\ Answered /\ run.apiKey
  /\ run.res.meta.hazard_only_effective
  /\ Len(run.res.items) = 2
  /\ run.res.meta.scanned_pages = 2
  /\ \A i \in 1 .. 2 : run.res.items[i].hazardous

\* the cache key of a request: its limit, its horizon in years (10 when absent,
\* within 1 .. 10) and whether it asks for hazardous objects only (it does
\* unless hazard is given and is not "true" in any letter case)
CacheKeyOf(q) ==
  << LimitOf(q.limit),
     IF q.years.null THEN 10 ELSE 1,
     q.hazard.null \/ q.hazard.s \in {"", "TRUE"} >>

\* the payload of a response
PayloadOf(res) == [status |-> res.status, items |-> res.items, meta |-> res.meta]

\* C23: when a request with an API key finds an entry for its key stored at
\* most 5 minutes earlier, the response is the stored payload, no upstream
\* fetch is made and the cache is left as it was; an older entry is not
\* returned: the answer is fetched again and the entry is replaced by one
\* stored now; a request without an API key leaves the cache as it was.
C23_CacheBehaviour ==
  [][(page = "neos" /\ changes' = changes + 1) =>
       LET Holds(k) ==
             /\ ~run.apiKey => run'.cache = run.cache /\ run.cache = << >>
             /\ (run.apiKey /\ k \in DOMAIN run.cache) =>
                  IF run.now - run.cache[k].t <= 5
                  THEN /\ PayloadOf(run'.res) = PayloadOf(run.cache[k].data)
                       /\ run'.res.fetches = << >>
                       /\ run'.cache = run.cache
                  ELSE /\ run'.res.fetches # << >>
                       /\ run'.cache[k].t = run.now
                       /\ PayloadOf(run'.cache[k].data) = PayloadOf(run'.res)
             /\ (run.apiKey /\ k \notin DOMAIN run.cache) =>
                  /\ run'.res.fetches # << >>
                  /\ k \in DOMAIN run'.cache
                  /\ run'.cache[k].t = run.now
       IN  Holds(CacheKeyOf(run'.q))]_vars

\* C23 witness: a request answered from an entry stored exactly 5 minutes
\* earlier, without any upstream fetch
C23_Witness ==
  /\ Answered /\ run.apiKey
  /\ changes = 2
  /\ CacheKeyOf(run.q) \in DOMAIN run.cache
  /\ run.cache[CacheKeyOf(run.q)].t = run.now - 5
  /\ run.res.fetches = << >>
  /\ Len(run.res.items) >= 2

\* the number of fetchJSONWithRetry calls of a response that returned a page
RECURSIVE PagesFetched(_)
PagesFetched(fetches) ==
  IF fetches = << >> THEN 0
  ELSE (IF fetches[1].ok THEN 1 ELSE 0) + PagesFetched(Tail(fetches))

\* C24: every request is answered, and in answering it the handler fetches at
\* most 40 pages successfully over both scans, makes at most 3 attempts for a
\* page, ends a scan at the first page whose fetch fails, and relaxes the
\* hazard filter at most once, only when hazardous objects only were asked
\* for and fewer than `limit` were found.
C24_BoundedScan ==
  (Answered /\ run.apiKey) =>
    LET Bounded(F, meta) ==
          /\ PagesFetched(F) <= 40
          /\ F # << >> => PagesFetched(F) = meta.scanned_pages
          /\ \A i \in 1 .. Len(F) : Len(F[i].seen) \in 1 .. 3
          /\ \A i \in 1 .. Len(F) :
               ~F[i].ok => (i = Len(F) \/ (F[i].hazardOnly /\ ~F[i + 1].hazardOnly))
          /\ \A i, j \in 1 .. Len(F) : (i < j /\ ~F[i].hazardOnly) => ~F[j].hazardOnly
          /\ \A i \in 1 .. Len(F) :
               /\ F[i].hazardOnly => meta.hazard_only_requested
               /\ (~F[i].hazardOnly /\ meta.hazard_only_requested) => meta.relaxed_hazard
          /\ meta.relaxed_hazard =>
               (meta.hazard_only_requested /\ run.res.found < LimitOf(run.q.limit))
    IN  Bounded(run.res.fetches, run.res.meta)

\* C24 witness: a catalogue of a thousand pages without any approach to Earth:
\* the hazard-only scan fetches 40 pages (the first at its second attempt) and
\* the filter is relaxed with no page left to scan
C24_Witness ==
  /\ Answered /\ run.apiKey
  /\ Len(run.res.fetches) = 40
  /\ run.res.meta.scanned_pages = 40
  /\ run.res.fetches[1].seen = << 503, 200 >>
  /\ run.res.meta.relaxed_hazard
  /\ \A i \in 1 .. 40 : run.res.fetches[i].hazardOnly

\* a body whose closest-approach position can be computed: finite a > 0, finite
\* e, finite mean anomaly, mean motion and osculation epoch, a numeric approach
\* epoch
Placeable(n) ==
  /\ n.hasOd /\ n.a.fin /\ n.a.v > 0 /\ n.e.fin
  /\ n.M0.fin /\ n.nDegPerDay.fin /\ n.epochOscJD.fin /\ n.approachEpoch.some

\* the ids of the listed bodies that satisfy Test
ListedIds(Test(_)) == {obs.items[i].id : i \in {j \in 1 .. Len(obs.items) : Test(obs.items[j])}}

\* the ids of a 2D drawing's markers, of a 3D drawing's points, and of its
\* points at a computed closest-approach position
Markers2D(out) == {out.markers[i].id : i \in 1 .. Len(out.markers)}
Points3D(out) == {out.entities[i].point.id : i \in 1 .. Len(out.entities)}
Solved3D(out) ==
  {out.entities[i].point.id : i \in {j \in 1 .. Len(out.entities) : out.entities[j].point.solved}}

\* C25 (as claimed): both views put a position marker on exactly the bodies
\* whose closest-approach position can be computed, and on no other body.
C25_SameMarkedBodies ==
  /\ Drawn2D => Markers2D(obs.out) = ListedIds(Placeable)
  /\ Drawn3D => Points3D(obs.out) = ListedIds(Placeable)

\* C25 (amended): both views compute a closest-approach position for exactly
\* the bodies for which it can be computed, the same bodies in the 2D as in
\* the 3D view of a list; a body drawn without one has no marker in the 2D
\* view and, in the 3D view, a point at its aphelion distance on the x axis.
C25_SameSolvedBodies ==
  /\ Drawn2D =>
       /\ Markers2D(obs.out) = ListedIds(Placeable)
       /\ Markers2D(obs.out) = Solved3D(draw3D(obs.items))
  /\ Drawn3D =>
       /\ Solved3D(obs.out) = ListedIds(Placeable)
       /\ Solved3D(obs.out) = Markers2D(draw2D(obs.items, FitPxPerAU(obs.items)))
       /\ Points3D(obs.out) = ListedIds(LAMBDA n : ~Unusable(n))
       /\ \A i \in 1 .. Len(obs.out.entities) :
            LET At(pt, n) ==
                  ~pt.solved => (pt.x = Mul(n.a.v, ONE + n.e.v) /\ pt.y = Fin(0))
            IN  At(obs.out.entities[i].point, UsableOf(obs.items)[i])

\* C25 witness: the 3D view of a body without a mean anomaly and one with all
\* its elements: one point at the aphelion distance, one at a computed position
C25_Witness ==
  /\ Drawn3D
  /\ Len(obs.items) = 2
  /\ obs.items[1].id = "noM0" /\ obs.items[2].id = "ok"
  /\ Len(obs.out.entities) = 2
  /\ ~obs.out.entities[1].point.solved
  /\ obs.out.entities[2].point.solved

====
